---------------------------- MODULE Spec2Model ----------------------------
(***************************************************************************)
(* A model of pybdoc's Signature.cpp: the BES offline validation of a      *)
(* parsed XAdES signature (bdoc::Signature::validateOffline and the checks *)
(* it calls) and the OCSP protocol of bdoc::SignatureValidator (prepare,   *)
(* validateBESOnline, getTMSignature, validateTMOffline).  Spec runs the   *)
(* offline validation and SpecTM the validator; SpecParse runs the choice  *)
(* of the dialect in Signature::parse and SpecDigest calcDigestOnNode in   *)
(* the builds with and without C14N 1.1.                                   *)
(*                                                                         *)
(* Strings the code searches or cuts (Reference/@Type, Reference/@URI, the *)
(* issuer DN) are sequences of one-character strings, and std::string's    *)
(* find, rfind and substr are computed on them.  A size_t is represented   *)
(* by its residue of least absolute value modulo 2^64, so that npos is -1  *)
(* and npos + 3 is 2, exactly as the unsigned arithmetic gives.            *)
(*                                                                         *)
(* Digests and signatures are symbolic terms: Digest(alg, x) is a record   *)
(* naming the algorithm and the bytes digested, so two digests are equal   *)
(* exactly when algorithm and input are (no collisions), and a flipped bit *)
(* is recorded in the term's flip field.                                   *)
(***************************************************************************)
EXTENDS Integers, Sequences, FiniteSets, TLC

(***************************************************************************)
(* Bounds of the model.                                                    *)
(***************************************************************************)
MaxDocs == 2
MaxEdits == 1
MaxCalls == 2
MaxRepeats == 2

(***************************************************************************)
(* std::string                                                             *)
(***************************************************************************)
NPOS == -1

SetMin(S) == CHOOSE m \in S : \A k \in S : m <= k
SetMax(S) == CHOOSE m \in S : \A k \in S : m >= k

\* The 0-based positions at which needle occurs in s.
Occurrences(s, needle) ==
    { i \in 0..(Len(s) - Len(needle)) :
        \A k \in 1..Len(needle) : s[i + k] = needle[k] }

\* s.find(needle, from)
Find(s, needle, from) ==
    LET c == { i \in Occurrences(s, needle) : i >= from }
    IN  IF c = {} THEN NPOS ELSE SetMin(c)

\* s.rfind(needle)
RFind(s, needle) ==
    LET c == Occurrences(s, needle)
    IN  IF c = {} THEN NPOS ELSE SetMax(c)

\* s.substr(pos, n) for pos <= s.length(); a count that is negative in the
\* signed representation is a huge size_t and means "to the end".
Substr(s, pos, n) ==
    LET avail == Len(s) - pos
        cnt == IF n < 0 \/ n > avail THEN avail ELSE n
    IN  SubSeq(s, pos + 1, pos + cnt)

SIGPROPS_PREFIX ==
    <<"h","t","t","p",":","/","/","u","r","i",".","e","t","s","i",".",
      "o","r","g","/","0","1","9","0","3">>
SIGPROPS_SUFFIX ==
    <<"#","S","i","g","n","e","d","P","r","o","p","e","r","t","i","e","s">>

\* The Reference/@Type values of the model, by name.
TypeNames == {"bdoc", "xades", "prefixOnly", "suffixOnly", "short16", "mid"}

TypeText(t) ==
    CASE t = "bdoc"       -> SIGPROPS_PREFIX \o SIGPROPS_SUFFIX
      [] t = "xades"      -> SIGPROPS_PREFIX \o <<"/","v","1",".","3",".","2">>
                                 \o SIGPROPS_SUFFIX
      [] t = "prefixOnly" -> SIGPROPS_PREFIX \o <<"#","O","b","j","e","c","t">>
      [] t = "suffixOnly" -> <<"u","r","n",":","x">> \o SIGPROPS_SUFFIX
      [] t = "short16"    -> <<"u","r","n",":","x","#","0","1","2","3","4",
                               "5","6","7","8","9">>
      [] t = "mid"        -> SIGPROPS_PREFIX \o SIGPROPS_SUFFIX \o <<"/","x">>

(***************************************************************************)
(* Digest (crypto/Digest.h): SHA-1, SHA-224 and SHA-256 are supported.     *)
(***************************************************************************)
DigestAlgs == {"sha1", "sha224", "sha256"}
AllDigestAlgs == DigestAlgs \cup {"md5"}

isSupported(alg) == alg \in DigestAlgs

DigestSize(alg) ==
    CASE alg = "sha1" -> 20 [] alg = "sha224" -> 28 [] alg = "sha256" -> 32
      [] OTHER -> 16

\* Digest::create(alg), update(x), getDigest()
Digest(alg, x) == [alg |-> alg, of |-> x, flip |-> 0]

\* The bytes of a digest value with one bit flipped.
FlipBit(v) == [v EXCEPT !.flip = 1 - @]

(***************************************************************************)
(* X509Cert (crypto/X509Cert.h).  Certificates are named; the operators    *)
(* below give what the wrapper reads from each.                            *)
(***************************************************************************)
CertNames == {"signer", "rogue", "bare", "late", "nocn", "tiny"}

\* X509Cert::getIssuerName()
getIssuerName(c) ==
    CASE c = "signer" -> <<"C","N","=","A",",","O","=","X">>
      [] c = "rogue"  -> <<"C","N","=","B",",","O","=","X">>
      [] c = "bare"   -> <<"C","N","=","A">>
      [] c = "late"   -> <<"O","=","X",",","C","N","=","A",",","C","=","E">>
      [] c = "nocn"   -> <<"O","=","A",",","C","=","E">>
      [] c = "tiny"   -> <<"O">>

\* The certificate's issuer, as the cert store knows it ("none": the store
\* holds no certificate for the issuer name).
IssuerOf(c) == IF c = "rogue" THEN "none" ELSE "caA"

\* X509Cert::verify(store): the certificate chains to a trust anchor.
verify(c, st) == st = "trusting" /\ c # "rogue"

\* X509Cert::encodeDER()
encodeDER(c) == [kind |-> "cert", name |-> c]

\* X509Cert::verifySignature(digest, signatureValue)
verifySignature(c, digest, sv) ==
    sv.flip = 0 /\ sv.key = c /\ sv.signed = digest

(***************************************************************************)
(* The parsed signature (dsig::SignatureType) and what the checks read.    *)
(***************************************************************************)
SignatureMethods == {"rsa-sha1", "rsa-sha224", "rsa-sha256"}
AllSignatureMethods == SignatureMethods \cup {"dsa-sha1", "rsa-sha512"}

\* XSECmapURIToSignatureMethods and hashMethod2URI
HashOfMethod(m) ==
    CASE m = "rsa-sha1" -> "sha1" [] m = "rsa-sha224" -> "sha224"
      [] m = "rsa-sha256" -> "sha256" [] OTHER -> "sha1"

C14nMethods == {"c14n", "c14n-com", "exc-c14n", "c14n11", "c14n11-com"}
AllC14nMethods == C14nMethods \cup {"exc-c14n-com"}

\* The canonicalizer setting calcDigestOnNode chooses for a method URI.
C14nSetting(m) ==
    CASE m = "c14n"       -> [excl |-> FALSE, incl11 |-> FALSE,
                              comments |-> FALSE, prefixes |-> {}]
      [] m = "c14n-com"   -> [excl |-> FALSE, incl11 |-> FALSE,
                              comments |-> TRUE, prefixes |-> {}]
      [] m = "exc-c14n"   -> [excl |-> TRUE, incl11 |-> FALSE,
                              comments |-> FALSE, prefixes |-> {"ds"}]
      [] m = "c14n11"     -> [excl |-> FALSE, incl11 |-> TRUE,
                              comments |-> FALSE, prefixes |-> {}]
      [] m = "c14n11-com" -> [excl |-> FALSE, incl11 |-> TRUE,
                              comments |-> TRUE, prefixes |-> {}]

\* The canonical bytes of a node under a setting.
Canon(setting, node) == [setting |-> setting, node |-> node]

Digits == <<"1", "2", "3", "4", "5">>
DocName(i) == <<"d", Digits[i]>>

\* The bytes of container document i (body 0: as signed, 1: altered).
DocContent(i, body) == [kind |-> "doc", doc |-> i, body |-> body]

\* The SignedProperties subtree, as canonicalized.
SignedPropertiesNode(s) ==
    [kind |-> "sp", policy |-> s.policy, scPresent |-> s.scPresent,
     scCount |-> s.scCount, scIssuer |-> s.scIssuer, scSerial |-> s.scSerial,
     scAlg |-> s.scAlg, scDigest |-> s.scDigest]

\* The SignedInfo subtree, as canonicalized.
SignedInfoNode(s) ==
    [kind |-> "si", c14n |-> s.c14n, method |-> s.method, refs |-> s.refs]

(***************************************************************************)
(* ContainerInfo (BDoc.h).  The container holds documents d1..dn; alt is   *)
(* the set of documents whose bytes were altered after signing.  A call is *)
(* a record; the tracking state of a validation is the calls made since    *)
(* checkDocumentsBegin.                                                    *)
(***************************************************************************)
NoDigest == [alg |-> "none", of |-> [kind |-> "none"], flip |-> 0]

CallBegin == [op |-> "checkDocumentsBegin", uri |-> <<>>, alg |-> "none",
              dv |-> NoDigest]
CallDoc(uri, alg, dv) == [op |-> "checkDocument", uri |-> uri, alg |-> alg,
                          dv |-> dv]
CallResult == [op |-> "checkDocumentsResult", uri |-> <<>>, alg |-> "none",
               dv |-> NoDigest]

documentCount(b) == b.n

DocBody(b, i) == IF i \in b.alt THEN 1 ELSE 0

\* One checkDocument call names document i of the container and carries
\* the digest of its bytes.
DocumentMatches(b, i, c) ==
    /\ c.uri = DocName(i)
    /\ isSupported(c.alg)
    /\ c.dv = Digest(c.alg, DocContent(i, DocBody(b, i)))

\* ContainerInfo::checkDocumentsResult() after the checkDocument calls
\* docs: every container document was referenced exactly once with a
\* matching digest, and nothing else was referenced.
checkDocumentsResult(b, docs) ==
    /\ \A i \in 1..b.n :
         /\ Cardinality({ k \in 1..Len(docs) : docs[k].uri = DocName(i) }) = 1
         /\ \A k \in 1..Len(docs) :
              docs[k].uri = DocName(i) => DocumentMatches(b, i, docs[k])
    /\ \A k \in 1..Len(docs) : \E i \in 1..b.n : docs[k].uri = DocName(i)

(***************************************************************************)
(* bdoc::Signature: the checks of validateOffline.  A check is an operator *)
(* giving "ok" or the message of the exception it throws; "UB" stands for  *)
(* an access the code makes without a check (undefined behaviour).         *)
(***************************************************************************)
OK == "ok"
UB == "UB"

\* "#" + _sign->id().get()
HashId(id) == IF id = "S0" THEN "#S0" ELSE IF id = "S1" THEN "#S1" ELSE "#"

XAdES132checkSignedSignatureProperties(s) ==
    IF ~s.signedProps
    THEN "QualifyingProperties block 'SignedProperties' is missing."
    ELSE IF s.policy THEN "Signature policy is not valid"
    ELSE OK

XAdES111checkSignedSignatureProperties(s) ==
    IF ~s.signedProps
    THEN "QualifyingProperties block 'SignedProperties' is missing."
    ELSE OK

checkSignedSignatureProperties(s) ==
    IF s.dialect = "V132" THEN XAdES132checkSignedSignatureProperties(s)
    ELSE XAdES111checkSignedSignatureProperties(s)

\* Both dialects: the same statements on their own QualifyingProperties.
checkQualifyingProperties(s) ==
    IF s.id = "none" THEN UB
    ELSE IF s.target # HashId(s.id)
    THEN "QualifyingProperties target is not Signature"
    ELSE IF checkSignedSignatureProperties(s) # OK
    THEN checkSignedSignatureProperties(s)
    ELSE IF s.unsignedProps /\ s.udop
    THEN "unexpected UnsignedDataObjectProperties in Signature"
    ELSE OK

\* A slip in checkSignatureMethod: every algorithm is let through.
checkSignatureMethod_Any(s) == OK

checkSignatureMethod(s) ==
    IF s.method \notin SignatureMethods
    THEN "Unsupported SignedInfo signature method"
    ELSE OK

\* A slip in isReferenceToSigProps: the end of the Type is not looked at.
isReferenceToSigProps_PrefixOnly(r) ==
    /\ r.hasType
    /\ Find(TypeText(r.type), SIGPROPS_PREFIX, 0) = 0

isReferenceToSigProps(r) ==
    /\ r.hasType
    /\ Find(TypeText(r.type), SIGPROPS_PREFIX, 0) = 0
    /\ RFind(TypeText(r.type), SIGPROPS_SUFFIX)
         = Len(TypeText(r.type)) - Len(SIGPROPS_SUFFIX)

\* The build: whether the XML Security library it is compiled against
\* defines URI_ID_C14N11_NOC.
VARIABLE c14n11

\* The branches of the dispatch the build has: those of C14N 1.1 are
\* compiled under #ifdef URI_ID_C14N11_NOC.
Dispatched(have11) ==
    IF have11 THEN C14nMethods ELSE C14nMethods \ {"c14n11", "c14n11-com"}

\* A slip in calcDigestOnNode: Exclusive C14N with comments is taken too.
calcDigestOnNode_ExcCom(s, alg, count, node, have11) ==
    IF count < 1
    THEN [err |-> "Could not find node in signature XML", dv |-> NoDigest]
    ELSE IF count > 1
    THEN [err |-> "Found more than one node in signature XML",
          dv |-> NoDigest]
    ELSE IF s.c14n = "exc-c14n-com"
    THEN [err |-> OK,
          dv |-> Digest(alg, Canon([excl |-> TRUE, incl11 |-> FALSE,
                                    comments |-> TRUE, prefixes |-> {"ds"}],
                                   node))]
    ELSE IF s.c14n \notin Dispatched(have11)
    THEN [err |-> "Unsupported SignedInfo canonicalization method",
          dv |-> NoDigest]
    ELSE [err |-> OK, dv |-> Digest(alg, Canon(C14nSetting(s.c14n), node))]

\* calcDigestOnNode: [err, dv]; count is the number of nodes of the tag.
calcDigestOnNode(s, alg, count, node, have11) ==
    IF count < 1
    THEN [err |-> "Could not find node in signature XML", dv |-> NoDigest]
    ELSE IF count > 1
    THEN [err |-> "Found more than one node in signature XML",
          dv |-> NoDigest]
    ELSE IF s.c14n \notin Dispatched(have11)
    THEN [err |-> "Unsupported SignedInfo canonicalization method",
          dv |-> NoDigest]
    ELSE [err |-> OK, dv |-> Digest(alg, Canon(C14nSetting(s.c14n), node))]

SignedPropertiesCount(s) == IF s.signedProps THEN 1 ELSE 0

checkReferenceToSigProps(s, r) ==
    IF ~r.hasUri
    THEN "SignedInfo reference to SignedProperties does not have attribute 'URI'"
    ELSE IF ~isSupported(r.alg)
    THEN "reference to SignedProperties digest method algorithm is not supported"
    ELSE LET c == calcDigestOnNode(s, r.alg, SignedPropertiesCount(s),
                                   SignedPropertiesNode(s), c14n11)
         IN  IF c.err # OK THEN c.err
             ELSE IF DigestSize(r.dv.alg) # DigestSize(c.dv.alg)
             THEN "SignedProperties digest lengths do not match"
             ELSE IF r.dv # c.dv
             THEN "SignedProperties digest values do not match"
             ELSE OK

\* docRefUri after "if (!docRefUri.empty() && docRefUri[0] == '/') erase(0, 1)"
StripSlash(uri) ==
    IF Len(uri) > 0 /\ uri[1] = "/" THEN Substr(uri, 1, NPOS) ELSE uri

\* The indexes of the references that are not to SignedProperties.
DocRefs(refs) == { i \in 1..Len(refs) : ~isReferenceToSigProps(refs[i]) }

\* The checkDocument calls of the loop over refs[from..upto], in order.
RECURSIVE DocCalls(_, _, _)
DocCalls(refs, from, upto) ==
    IF from > upto THEN <<>>
    ELSE IF isReferenceToSigProps(refs[from])
    THEN DocCalls(refs, from + 1, upto)
    ELSE <<CallDoc(StripSlash(refs[from].uri), refs[from].alg, refs[from].dv)>>
            \o DocCalls(refs, from + 1, upto)

\* A slip in checkReferencesToDocs: checkDocumentsResult's answer is dropped.
checkReferencesToDocs_ResultIgnored(s, b) ==
    LET noUri == { i \in DocRefs(s.refs) : ~s.refs[i].hasUri }
    IN  IF noUri # {}
        THEN [err |-> "Document reference is missing attribute 'URI'",
              calls |-> <<CallBegin>>
                          \o DocCalls(s.refs, 1, SetMin(noUri) - 1)]
        ELSE [err |-> OK,
              calls |-> <<CallBegin>> \o DocCalls(s.refs, 1, Len(s.refs))
                          \o <<CallResult>>]

\* checkReferencesToDocs: [err, calls], the calls made on ContainerInfo.
checkReferencesToDocs(s, b) ==
    LET noUri == { i \in DocRefs(s.refs) : ~s.refs[i].hasUri }
    IN  IF noUri # {}
        THEN [err |-> "Document reference is missing attribute 'URI'",
              calls |-> <<CallBegin>>
                          \o DocCalls(s.refs, 1, SetMin(noUri) - 1)]
        ELSE LET docs == DocCalls(s.refs, 1, Len(s.refs))
             IN  [err |-> IF checkDocumentsResult(b, docs) THEN OK
                          ELSE "Document references didn't match",
                  calls |-> <<CallBegin>> \o docs \o <<CallResult>>]

\* A slip in checkReferences: only too few references are refused.
checkReferences_CountAtLeast(s, b) ==
    LET sp == { i \in 1..Len(s.refs) : isReferenceToSigProps(s.refs[i]) }
    IN  IF Len(s.refs) < documentCount(b) + 1
        THEN [err |-> "Number of references in SignedInfo is invalid",
              calls |-> <<>>]
        ELSE IF sp = {}
        THEN [err |-> "SignedInfo does not contain reference to SignedProperties",
              calls |-> <<>>]
        ELSE IF checkReferenceToSigProps(s, s.refs[SetMin(sp)]) # OK
        THEN [err |-> checkReferenceToSigProps(s, s.refs[SetMin(sp)]),
              calls |-> <<>>]
        ELSE IF Cardinality(sp) > 1
        THEN [err |-> "SignedInfo element refers to more than one SignedProperties",
              calls |-> <<>>]
        ELSE checkReferencesToDocs(s, b)

\* checkReferences: [err, calls]
checkReferences(s, b) ==
    LET sp == { i \in 1..Len(s.refs) : isReferenceToSigProps(s.refs[i]) }
    IN  IF Len(s.refs) # documentCount(b) + 1
        THEN [err |-> "Number of references in SignedInfo is invalid",
              calls |-> <<>>]
        ELSE IF sp = {}
        THEN [err |-> "SignedInfo does not contain reference to SignedProperties",
              calls |-> <<>>]
        ELSE IF checkReferenceToSigProps(s, s.refs[SetMin(sp)]) # OK
        THEN [err |-> checkReferenceToSigProps(s, s.refs[SetMin(sp)]),
              calls |-> <<>>]
        ELSE IF Cardinality(sp) > 1
        THEN [err |-> "SignedInfo element refers to more than one SignedProperties",
              calls |-> <<>>]
        ELSE checkReferencesToDocs(s, b)

getSigningX509CertificateType(s) ==
    IF ~s.keyInfo THEN "Signature does not contain signer certificate"
    ELSE IF s.x509Data = 0 THEN "Signature does not contain signer certificate"
    ELSE IF s.x509Data # 1
    THEN "Signature contains more than one signer certificate"
    ELSE IF s.x509Certs = 0
    THEN "Signature does not contain signer certificate"
    ELSE IF s.x509Certs # 1
    THEN "Signature contains more than one signer certificate"
    ELSE OK

\* A slip in checkKeyInfo: the digest bytes are not compared.
checkKeyInfo_LengthOnly(s) ==
    IF getSigningX509CertificateType(s) # OK
    THEN getSigningX509CertificateType(s)
    ELSE IF ~s.signedProps THEN "SignedProperties not found"
    ELSE IF s.dialect = "V132" /\ ~s.scPresent
    THEN "SigningCertificate not found"
    ELSE IF s.scCount # 1 THEN "Number of SigningCertificates must be 1"
    ELSE IF ~isSupported(s.scAlg)
    THEN "Unsupported digest algorithm for signing certificate"
    ELSE IF \/ getIssuerName(s.cert) # getIssuerName(s.scIssuer)
            \/ s.cert # s.scSerial
    THEN "Signing certificate issuer information invalid"
    ELSE IF DigestSize(s.scDigest.alg) # DigestSize(s.scAlg)
    THEN "Wrong length for signing certificate digest"
    ELSE OK

\* Both dialects; SigningCertificate is optional in v1.3.2 only.
checkKeyInfo(s) ==
    IF getSigningX509CertificateType(s) # OK
    THEN getSigningX509CertificateType(s)
    ELSE IF ~s.signedProps THEN "SignedProperties not found"
    ELSE IF s.dialect = "V132" /\ ~s.scPresent
    THEN "SigningCertificate not found"
    ELSE IF s.scCount # 1 THEN "Number of SigningCertificates must be 1"
    ELSE IF ~isSupported(s.scAlg)
    THEN "Unsupported digest algorithm for signing certificate"
    ELSE IF \/ getIssuerName(s.cert) # getIssuerName(s.scIssuer)
            \/ s.cert # s.scSerial
    THEN "Signing certificate issuer information invalid"
    ELSE IF DigestSize(s.scDigest.alg) # DigestSize(s.scAlg)
    THEN "Wrong length for signing certificate digest"
    ELSE IF Digest(s.scAlg, encodeDER(s.cert)) # s.scDigest
    THEN "Signing certificate digest does not match"
    ELSE OK

checkSignatureValue(s) ==
    IF getSigningX509CertificateType(s) # OK
    THEN getSigningX509CertificateType(s)
    ELSE IF s.method \notin SignatureMethods
    THEN "Couldn't extract hash method from signature method URI"
    ELSE LET c == calcDigestOnNode(s, HashOfMethod(s.method), 1,
                                   SignedInfoNode(s), c14n11)
         IN  IF c.err # OK THEN c.err
             ELSE IF ~verifySignature(s.cert, c.dv, s.sigValue)
             THEN "Signature is not valid."
             ELSE OK

\* A slip in checkSigningCertificate: no test of store == NULL.
checkSigningCertificate_NoNullTest(s, st) ==
    IF getSigningX509CertificateType(s) # OK
    THEN getSigningX509CertificateType(s)
    ELSE IF st # "none" /\ ~verify(s.cert, st)
    THEN "Unable to verify signing certificate"
    ELSE OK

checkSigningCertificate(s, st) ==
    IF getSigningX509CertificateType(s) # OK
    THEN getSigningX509CertificateType(s)
    ELSE IF st = "none" THEN "Unable to verify signing certificate"
    ELSE IF ~verify(s.cert, st) THEN "Unable to verify signing certificate"
    ELSE OK

\* A slip in validateOffline: checkKeyInfo is called before checkReferences.
GroupB_KeyInfoFirst(s, b) ==
    IF checkSignatureMethod(s) # OK
    THEN [err |-> checkSignatureMethod(s), calls |-> <<>>,
          ran |-> <<"checkSignatureMethod">>]
    ELSE IF checkKeyInfo(s) # OK
    THEN [err |-> checkKeyInfo(s), calls |-> <<>>,
          ran |-> <<"checkSignatureMethod", "checkKeyInfo">>]
    ELSE IF checkReferences(s, b).err # OK
    THEN [err |-> checkReferences(s, b).err,
          calls |-> checkReferences(s, b).calls,
          ran |-> <<"checkSignatureMethod", "checkKeyInfo",
                    "checkReferences">>]
    ELSE [err |-> checkSignatureValue(s),
          calls |-> checkReferences(s, b).calls,
          ran |-> <<"checkSignatureMethod", "checkKeyInfo",
                    "checkReferences", "checkSignatureValue">>]

\* The second try block of validateOffline: [err, calls, ran], ran being
\* the checks called, in the order of the calls.
GroupB(s, b) ==
    IF checkSignatureMethod(s) # OK
    THEN [err |-> checkSignatureMethod(s), calls |-> <<>>,
          ran |-> <<"checkSignatureMethod">>]
    ELSE IF checkReferences(s, b).err # OK
    THEN [err |-> checkReferences(s, b).err,
          calls |-> checkReferences(s, b).calls,
          ran |-> <<"checkSignatureMethod", "checkReferences">>]
    ELSE IF checkKeyInfo(s) # OK
    THEN [err |-> checkKeyInfo(s), calls |-> checkReferences(s, b).calls,
          ran |-> <<"checkSignatureMethod", "checkReferences",
                    "checkKeyInfo">>]
    ELSE [err |-> checkSignatureValue(s),
          calls |-> checkReferences(s, b).calls,
          ran |-> <<"checkSignatureMethod", "checkReferences",
                    "checkKeyInfo", "checkSignatureValue">>]

(***************************************************************************)
(* The signatures the model starts from: valid XAdES-BES signatures over   *)
(* the documents of the container, in a few styles that between them use   *)
(* both dialects and the signature methods, canonicalizations, digests and *)
(* Type values the code distinguishes.                                     *)
(***************************************************************************)
Styles ==
    { [dialect |-> "V132", method |-> "rsa-sha256", c14n |-> "c14n",
       alg |-> "sha256", spType |-> "xades", docTyped |-> FALSE,
       docType |-> "mid", spFirst |-> FALSE, slash |-> FALSE],
      [dialect |-> "V111", method |-> "rsa-sha1", c14n |-> "exc-c14n",
       alg |-> "sha1", spType |-> "bdoc", docTyped |-> TRUE,
       docType |-> "prefixOnly", spFirst |-> TRUE, slash |-> TRUE],
      [dialect |-> "V132", method |-> "rsa-sha224", c14n |-> "c14n11",
       alg |-> "sha224", spType |-> "bdoc", docTyped |-> TRUE,
       docType |-> "short16", spFirst |-> FALSE, slash |-> TRUE] }

DocRef(i, st) ==
    [hasType |-> st.docTyped, type |-> st.docType, hasUri |-> TRUE,
     uri |-> (IF st.slash THEN <<"/">> ELSE <<>>) \o DocName(i),
     alg |-> st.alg, dv |-> Digest(st.alg, DocContent(i, 0))]

SigPropsRef(p, st) ==
    [hasType |-> TRUE, type |-> st.spType, hasUri |-> TRUE,
     uri |-> <<"#", "S", "P">>, alg |-> st.alg,
     dv |-> Digest(st.alg, Canon(C14nSetting(st.c14n),
                                 SignedPropertiesNode(p)))]

\* The SignatureValue the holder of the signing certificate's key computes
\* over the SignedInfo of s.
SignatureValueOver(s) ==
    [key |-> s.cert, flip |-> 0,
     signed |-> Digest(HashOfMethod(s.method),
                       Canon(C14nSetting(s.c14n), SignedInfoNode(s)))]

(***************************************************************************)
(* OCSP responses (ocsp/OCSP.h).  A response is the responder's signed     *)
(* assertion tbs, the signature over it, and bytes the signature does not  *)
(* cover (pad: the certificates the responder attaches).                   *)
(***************************************************************************)
CertStatuses == {"GOOD", "REVOKED", "UNKNOWN"}

NoResponse ==
    LET tbs == [status |-> "none", nonce |-> NoDigest, producedAt |-> 0]
    IN  [der |-> "empty", tbs |-> tbs, pad |-> 0,
         sig |-> [key |-> "none", flip |-> 0, signed |-> tbs]]

\* Bytes that are not the encoding of a response.
GarbageResponse == [NoResponse EXCEPT !.der = "garbage"]

\* What the responder whose key is in OCSPConf.cert answers.
Response(status, nonce, t) ==
    LET tbs == [status |-> status, nonce |-> nonce, producedAt |-> t]
    IN  [der |-> "ok", tbs |-> tbs, pad |-> 0,
         sig |-> [key |-> "responder", flip |-> 0, signed |-> tbs]]

\* util::date::xsd2string(util::date::makeDateTime(tm)) and the parse of
\* the xsd:dateTime it writes: the text of the instant.
xsd2string(t) == [iso |-> t]

\* The UnsignedSignatureProperties of a signature without one.
NoUnsignedSignatureProperties ==
    [usp |-> 0, rv |-> "absent", ocspResp |-> NoResponse, crr |-> "absent",
     refAlg |-> "none", refDv |-> NoDigest, refProducedAt |-> xsd2string(0)]

BaseSignature(st, n) ==
    LET p == [dialect |-> st.dialect, id |-> "S0", target |-> "#S0",
              signedProps |-> TRUE, policy |-> (st.dialect = "V111"),
              unsignedProps |-> (st.dialect = "V111"), udop |-> FALSE,
              method |-> st.method, c14n |-> st.c14n,
              keyInfo |-> TRUE, x509Data |-> 1, x509Certs |-> 1,
              cert |-> "signer", scPresent |-> TRUE, scCount |-> 1,
              scIssuer |-> "signer", scSerial |-> "signer",
              scAlg |-> st.alg,
              scDigest |-> Digest(st.alg, encodeDER("signer"))]
        docs == [i \in 1..n |-> DocRef(i, st)]
        refs == IF st.spFirst THEN <<SigPropsRef(p, st)>> \o docs
                ELSE docs \o <<SigPropsRef(p, st)>>
        q == p @@ [refs |-> refs]
    IN  q @@ [sigValue |-> SignatureValueOver(q)] @@ NoUnsignedSignatureProperties

(***************************************************************************)
(* Configuration (Configuration.h) and the OCSP client (ocsp/OCSP.h).      *)
(***************************************************************************)
CN_EQ == <<"C", "N", "=">>
COMMA == <<",">>

\* Configuration::hasOCSPConf(cn)
hasOCSPConf(cf, cn) == cn \in cf.keys

\* CertStore::getCert(name): the certificate with that subject, or NULL.
getCert(cf, name) == IF name \in cf.store THEN name ELSE "null"

\* The issuer of the responder certificate of OCSPConf.cert.
ResponderIssuer == "caOCSP"

\* OCSP::verifyResponse(resp) of a client set up with the responder
\* certificates certs: the response decodes, its signature verifies under
\* one of them, and it is fresh within skew and maxAge.
verifyResponse(cf, certs, resp) ==
    IF resp.der # "ok" THEN "ParseError"
    ELSE IF ~(/\ resp.sig.flip = 0
              /\ resp.sig.signed = resp.tbs
              /\ resp.sig.key \in certs)
    THEN "OCSPBadSignature"
    ELSE IF \/ cf.now - resp.tbs.producedAt > cf.maxAge
            \/ resp.tbs.producedAt - cf.now > cf.skew
    THEN "OCSPStale"
    ELSE OK

\* OCSP::getNonce(resp)
getNonce(resp) == resp.tbs.nonce

\* Digest::create(uri) of an unknown URI
UnsupportedDigest == "UnsupportedAlgorithm"

(***************************************************************************)
(* The navigators of the two dialects.  Each returns [err, val]; err is UB *)
(* where the code dereferences an optional element that is absent.         *)
(***************************************************************************)
\* unsignSigProps(): throws unless UnsignedProperties is present
unsignSigProps(s) ==
    IF ~s.unsignedProps THEN "Missing UnsignedProperties" ELSE OK

getOCSPResponseValue(s) ==
    IF unsignSigProps(s) # OK
    THEN [err |-> unsignSigProps(s), val |-> NoResponse]
    ELSE IF s.usp = 0
    THEN [err |-> "Unsigned signature properties missing", val |-> NoResponse]
    ELSE IF s.rv = "absent"
    THEN [err |-> "Revocation values missing", val |-> NoResponse]
    ELSE IF s.rv = "noOCSPValues"         \* t.oCSPValues().get()
    THEN [err |-> UB, val |-> NoResponse]
    ELSE [err |-> OK, val |-> s.ocspResp]

ocspDigestAlgorithm(s) ==
    IF unsignSigProps(s) # OK
    THEN [err |-> unsignSigProps(s), val |-> "none"]
    ELSE IF s.usp = 0 \/ s.crr # "ok"
    THEN [err |-> UB, val |-> "none"]
    ELSE [err |-> OK, val |-> s.refAlg]

getRevocationOCSPRef(s) ==
    IF unsignSigProps(s) # OK
    THEN [err |-> unsignSigProps(s), val |-> NoDigest, uri |-> "none"]
    ELSE IF s.usp = 0
    THEN [err |-> UB, val |-> NoDigest, uri |-> "none"]
    ELSE IF s.crr # "ok"
    THEN [err |-> "Missing UnsignedProperties/UnsignedSignatureProperties/CompleteRevocationRefs/OCSPRefs/OCSPRef/DigestAlgAndValue element",
          val |-> NoDigest, uri |-> "none"]
    ELSE [err |-> OK, val |-> s.refDv, uri |-> s.refAlg]

\* Signature::getProducedAt(): "" without UnsignedSignatureProperties
getProducedAt(s) ==
    IF unsignSigProps(s) # OK
    THEN [err |-> unsignSigProps(s), val |-> xsd2string(0)]
    ELSE IF s.usp = 0 THEN [err |-> OK, val |-> xsd2string(0)]
    ELSE IF s.crr \in {"absent", "noOCSPRefs"}
    THEN [err |-> UB, val |-> xsd2string(0)]
    ELSE [err |-> OK, val |-> s.refProducedAt]

\* Signature::getSignatureValue(): the decoded bytes of SignatureValue
getSignatureValue(s) == s.sigValue

(***************************************************************************)
(* SignatureValidator.                                                     *)
(***************************************************************************)
\* SignatureValidator(sig, cf)
\* x509 and stacks count, for each X509 handle that getCert returned to
\* prepare and each stack that loadX509Stack made for it, in the order of
\* acquisition, how often it was freed.  _issuerX509 and _ocspCerts, where
\* not NULL, point to the last of them.
NewValidator ==
    [signingCert |-> "unset", issuerX509 |-> "null", ocspCerts |-> <<>>,
     ocspResponse |-> NoResponse, producedAt |-> 0,
     x509 |-> <<>>, stacks |-> <<>>]

IssuerCN_ToEnd(issuer) ==
    LET pos == Find(issuer, CN_EQ, 0) + 3
    IN  IF pos > Len(issuer) THEN [err |-> "std::out_of_range", cn |-> <<>>]
        ELSE [err |-> OK, cn |-> Substr(issuer, pos, NPOS)]

\* int pos = issuer.find("CN=", 0) + 3;
\* issure_cn = issuer.substr(pos, issuer.find(",", pos) - pos);
\* Without "CN=" pos is npos + 3 = 2; substr throws when pos > size().
IssuerCN(issuer) ==
    LET pos == Find(issuer, CN_EQ, 0) + 3
    IN  IF pos > Len(issuer) THEN [err |-> "std::out_of_range", cn |-> <<>>]
        ELSE [err |-> OK,
              cn |-> Substr(issuer, pos, Find(issuer, COMMA, pos) - pos)]

NoOCSPResponder == "Failed to find ocsp responder."
IssuerUnknown == "Failed to load issuer certificate."

\* prepare() of validator w: the error it throws or OK, the validator
\* afterwards, and its lookups in the configuration and the cert store.
prepare(s, cf, w) ==
    IF getSigningX509CertificateType(s) # OK
    THEN [err |-> getSigningX509CertificateType(s), v |-> w, log |-> <<>>]
    ELSE
    LET w1 == [w EXCEPT !.signingCert = s.cert]
        k == IssuerCN(getIssuerName(s.cert))
        w2 == [w1 EXCEPT !.issuerX509 = getCert(cf, IssuerOf(s.cert)),
                         !.x509 = IF getCert(cf, IssuerOf(s.cert)) = "null"
                                  THEN @ ELSE Append(@, 0)]
        l1 == [ev |-> "hasOCSPConf", cn |-> k.cn]
        l2 == [ev |-> "getCert", name |-> IssuerOf(s.cert)]
    IN  IF k.err # OK THEN [err |-> k.err, v |-> w1, log |-> <<>>]
        ELSE IF ~hasOCSPConf(cf, k.cn)
        THEN [err |-> NoOCSPResponder, v |-> w1, log |-> <<l1>>]
        ELSE IF w2.issuerX509 = "null"
        THEN [err |-> IssuerUnknown, v |-> w2, log |-> <<l1, l2>>]
        ELSE [err |-> OK,
              v |-> [w2 EXCEPT !.ocspCerts = <<"responder">>,
                               !.stacks = Append(@, 0)],
              log |-> <<l1, l2>>]

validateBESOnline_Request_Sha1(s, cf, w) ==
    [cert |-> w.signingCert, issuer |-> w.issuerX509,
     nonce |-> Digest("sha1", getSignatureValue(s))]

\* What validateBESOnline passes to OCSP::checkCert.
validateBESOnline_Request(s, cf, w) ==
    [cert |-> w.signingCert, issuer |-> w.issuerX509,
     nonce |-> Digest(cf.digestURI, getSignatureValue(s))]

NonceMismatch ==
    "Calculated signature hash doesn't match to OCSP responder nonce field"
OCSPRefMismatch == "OCSPRef value doesn't match with hash of OCSP response"

checkNonce_ConfDigest(s, cf, resp) ==
    IF Digest(cf.digestURI, getSignatureValue(s)) # getNonce(resp)
    THEN NonceMismatch
    ELSE OK

\* validateTMOffline from getNonce to the comparison of the nonces
checkNonce(s, cf, resp) ==
    LET m == ocspDigestAlgorithm(s)
    IN  IF m.err # OK THEN m.err
        ELSE IF ~isSupported(m.val) THEN UnsupportedDigest
        ELSE IF Digest(m.val, getSignatureValue(s)) # getNonce(resp)
        THEN NonceMismatch
        ELSE OK

checkOCSPRef_Unchecked(s, resp) ==
    LET r == getRevocationOCSPRef(s)
    IN  IF r.err # OK THEN r.err
        ELSE IF ~isSupported(r.uri) THEN UnsupportedDigest
        ELSE OK

\* validateTMOffline from getRevocationOCSPRef to its end
checkOCSPRef(s, resp) ==
    LET r == getRevocationOCSPRef(s)
    IN  IF r.err # OK THEN r.err
        ELSE IF ~isSupported(r.uri) THEN UnsupportedDigest
        ELSE IF Digest(r.uri, resp) # r.val THEN OCSPRefMismatch
        ELSE OK

XML_DECL == "<?xml version=\"1.0\" encoding=\"UTF-8\"?>\n"

\* serializeDOM(node): XSECC14n20010315 without comments
serializeDOM(node) == Canon(C14nSetting("c14n"), node)

NothingAppended == [parent |-> "none", children |-> <<>>]

\* The UnsignedSignatureProperties element getTMSignature builds, child by
\* child in the order of the addXML... calls.
UnsignedSignaturePropertiesOf(cf, w) ==
    LET ocspCert == Head(w.ocspCerts)
        oic == getCert(cf, ResponderIssuer)
    IN  [parent |-> "UnsignedProperties",
         children |->
           << [name |-> "CertificateValues",
               certs |-> <<ocspCert, w.issuerX509>>],
              [name |-> "RevocationValues", encapsulated |-> w.ocspResponse],
              [name |-> "CompleteCertificateRefs", cert |-> oic,
               alg |-> cf.digestURI,
               dv |-> Digest(cf.digestURI, encodeDER(oic))],
              [name |-> "CompleteRevocationRefs", responder |-> ocspCert,
               alg |-> cf.digestURI,
               dv |-> Digest(cf.digestURI, w.ocspResponse),
               producedAt |-> xsd2string(w.producedAt)] >>]

NoOutput == [present |-> FALSE]

TMOutput(s, appended) ==
    [present |-> TRUE, decl |-> XML_DECL,
     body |-> serializeDOM([doc |-> s, appended |-> appended])]

\* getTMSignature() of validator w whose responder certificates are loaded.
\* attached: appendChild put the new element under UnsignedProperties.
getTMSignature(s, cf, w, attached) ==
    IF getCert(cf, ResponderIssuer) = "null"
    THEN [err |-> IssuerUnknown, out |-> NoOutput]
    ELSE [err |-> OK,
          out |-> TMOutput(s, IF attached
                              THEN UnsignedSignaturePropertiesOf(cf, w)
                              ELSE NothingAppended)]

\* The parse of a document getTMSignature returned.  The schemas allow one
\* UnsignedSignatureProperties, before UnsignedDataObjectProperties.
parse(out) ==
    LET d == out.body.node
        c == d.appended.children
    IN  IF c = <<>> THEN [err |-> OK, sig |-> d.doc]
        ELSE IF d.doc.usp # 0 \/ d.doc.udop
        THEN [err |-> "InvalidStructure", sig |-> d.doc]
        ELSE [err |-> OK,
              sig |-> [usp |-> 1, rv |-> "ok",
                       ocspResp |-> c[2].encapsulated, crr |-> "ok",
                       refAlg |-> c[4].alg, refDv |-> c[4].dv,
                       refProducedAt |-> c[4].producedAt] @@ d.doc]

(***************************************************************************)
(* Configurations and the signatures validation starts from.               *)
(***************************************************************************)
Confs ==
    { [digestURI |-> "sha256", keys |-> {<<"A">>}, store |-> {"caA", "caOCSP"},
       now |-> 2, skew |-> 1, maxAge |-> 1],
      [digestURI |-> "sha1", keys |-> {<<"A">>, <<"B">>},
       store |-> {"caA", "caOCSP"}, now |-> 2, skew |-> 1, maxAge |-> 0],
      [digestURI |-> "sha256", keys |-> {}, store |-> {"caA", "caOCSP"},
       now |-> 2, skew |-> 1, maxAge |-> 1],
      [digestURI |-> "sha1", keys |-> {<<"A">>}, store |-> {"caA"},
       now |-> 2, skew |-> 1, maxAge |-> 1] }

\* A BES signature with an (empty) UnsignedProperties element.
WithUnsignedProperties(s) == [s EXCEPT !.unsignedProps = TRUE]

\* The TM signature made of the BES signature s by a validator configured
\* with digest alg whose online call the responder answered at time t.
TMSignature(s, alg, t) ==
    LET cf == [digestURI |-> alg, store |-> {"caA", "caOCSP"}]
        w == [NewValidator EXCEPT
                !.signingCert = s.cert, !.issuerX509 = IssuerOf(s.cert),
                !.ocspCerts = <<"responder">>,
                !.ocspResponse =
                    Response("GOOD", Digest(alg, getSignatureValue(s)), t),
                !.producedAt = t]
    IN  parse(getTMSignature(s, cf, w, TRUE).out).sig

(***************************************************************************)
(* State.                                                                  *)
(***************************************************************************)
VARIABLES
    sig,        \* the signature document (the parsed dsig::SignatureType)
    bdoc,       \* the ContainerInfo the signature was parsed with
    nEdits,     \* how many changes were made to the document and container
    lastEdit,   \* the last of them
    pc,         \* where validateOffline is
    store,      \* its argument: "none" (NULL), "trusting", "distrusting"
    attempted,  \* the try blocks entered, in order
    causes,     \* the exceptions added to exc, in order
    calls,      \* the calls made on ContainerInfo, in order
    result,     \* "none"; "ok": returned; "throw": threw exc; "crash"
    conf,       \* the Configuration of the SignatureValidator
    v,          \* the SignatureValidator's members
    vpc,        \* where the validator's running method is
    nCalls,     \* the calls made on the validator
    hist,       \* how each call ended, in order
    ocspLog,    \* the lookups and the uses of the OCSP client, in order
    tmOut,      \* what getTMSignature last returned
    reparsed,   \* "no"; "ok": sig is the parse of tmOut; "failed"
    reported,   \* validator.getProducedAt() when tmOut was parsed
    xml,        \* the Object elements of a document handed to parse
    parsed,     \* what parse made of xml
    digested,   \* what a call of calcDigestOnNode on its own returned
    ran         \* the checks the second try block of validateOffline ran

ovars == <<bdoc, pc, store, attempted, causes, calls, result, ran>>
vvars == <<conf, v, vpc, nCalls, hist, ocspLog, tmOut, reparsed, reported>>
pvars == <<xml, parsed, c14n11, digested>>
vars == <<sig, nEdits, lastEdit, ovars, vvars, pvars>>

Stores == {"none", "trusting", "distrusting"}

NoOfflineValidation ==
    /\ pc = "idle"
    /\ store = "none"
    /\ attempted = <<>>
    /\ causes = <<>>
    /\ calls = <<>>
    /\ result = "none"
    /\ ran = <<>>

NoValidation ==
    /\ v = NewValidator
    /\ vpc = "idle"
    /\ nCalls = 0
    /\ hist = <<>>
    /\ ocspLog = <<>>
    /\ tmOut = NoOutput
    /\ reparsed = "no"
    /\ reported = xsd2string(0)

\* The signature is parsed already.
NotParsed == [err |-> "unparsed", dialect |-> "none"]

NotDigested == [err |-> "none", dv |-> NoDigest]

\* The build is one against an XML Security library that has C14N 1.1.
NotParsing ==
    /\ xml = <<>> /\ parsed = NotParsed
    /\ c14n11 = TRUE /\ digested = NotDigested

Init ==
    /\ \E st \in Styles, n \in 0..MaxDocs :
         /\ sig = BaseSignature(st, n)
         /\ bdoc = [n |-> n, alt |-> {}]
    /\ conf = CHOOSE cf \in Confs : cf.maxAge = 0
    /\ NoValidation
    /\ NoOfflineValidation
    /\ nEdits = 0
    /\ lastEdit = "none"
    /\ NotParsing

(***************************************************************************)
(* The document and the container before validation: one change at a time  *)
(* to an element or attribute the checks read, each leaving a document the *)
(* schemas accept (v1.1.1 requires SignaturePolicyIdentifier, both require *)
(* a Reference and a Cert).                                                *)
(***************************************************************************)
CanEdit == pc = "idle" /\ nCalls = 0 /\ reparsed = "no" /\ nEdits < MaxEdits

Edited(s, name) ==
    /\ sig' = s
    /\ nEdits' = nEdits + 1
    /\ lastEdit' = name
    /\ UNCHANGED <<ovars, vvars, pvars>>

RemoveAt(q, i) == SubSeq(q, 1, i - 1) \o SubSeq(q, i + 1, Len(q))
InsertAfter(q, i, x) == SubSeq(q, 1, i) \o <<x>> \o SubSeq(q, i + 1, Len(q))

RemoveReference ==
    /\ CanEdit
    /\ Len(sig.refs) > 1          \* the schema asks for a Reference
    /\ \E i \in 1..Len(sig.refs) :
         Edited([sig EXCEPT !.refs = RemoveAt(@, i)], "RemoveReference")

DuplicateReference ==
    /\ CanEdit
    /\ \E i \in 1..Len(sig.refs) :
         Edited([sig EXCEPT !.refs = InsertAfter(@, i, @[i])],
                "DuplicateReference")

SetReferenceType ==
    /\ CanEdit
    /\ \E i \in 1..Len(sig.refs), t \in TypeNames :
         /\ ~(sig.refs[i].hasType /\ sig.refs[i].type = t)
         /\ Edited([sig EXCEPT !.refs[i].hasType = TRUE, !.refs[i].type = t],
                   "SetReferenceType")

DropReferenceType ==
    /\ CanEdit
    /\ \E i \in 1..Len(sig.refs) :
         /\ sig.refs[i].hasType
         /\ Edited([sig EXCEPT !.refs[i].hasType = FALSE],
                   "DropReferenceType")

DropReferenceURI ==
    /\ CanEdit
    /\ \E i \in 1..Len(sig.refs) :
         /\ sig.refs[i].hasUri
         /\ Edited([sig EXCEPT !.refs[i].hasUri = FALSE, !.refs[i].uri = <<>>],
                   "DropReferenceURI")

SlashReferenceURI ==
    /\ CanEdit
    /\ \E i \in 1..Len(sig.refs) :
         /\ sig.refs[i].hasUri
         /\ Len(sig.refs[i].uri) < 4
         /\ Edited([sig EXCEPT !.refs[i].uri = <<"/">> \o @],
                   "SlashReferenceURI")

FlipReferenceDigest ==
    /\ CanEdit
    /\ \E i \in 1..Len(sig.refs) :
         Edited([sig EXCEPT !.refs[i].dv = FlipBit(@)], "FlipReferenceDigest")

SetAttribute ==
    /\ CanEdit
    /\ \/ sig.id # "none" /\ Edited([sig EXCEPT !.id = "none"], "DropId")
       \/ sig.target # "#S1"
            /\ Edited([sig EXCEPT !.target = "#S1"], "SetTarget")
       \/ \E m \in AllSignatureMethods :
            /\ m # sig.method
            /\ Edited([sig EXCEPT !.method = m], "SetSignatureMethod")
       \/ \E m \in AllC14nMethods :
            /\ m # sig.c14n
            /\ Edited([sig EXCEPT !.c14n = m], "SetCanonicalizationMethod")

SetProperties ==
    /\ CanEdit
    /\ \/ sig.signedProps
            /\ Edited([sig EXCEPT !.signedProps = FALSE],
                      "DropSignedProperties")
       \/ ~sig.policy /\ sig.dialect = "V132"
            /\ Edited([sig EXCEPT !.policy = TRUE],
                      "AddSignaturePolicyIdentifier")
       \/ Edited(NoUnsignedSignatureProperties
                    @@ [sig EXCEPT !.unsignedProps = ~@, !.udop = FALSE],
                 "ToggleUnsignedProperties")
       \/ sig.unsignedProps /\ ~sig.udop
            /\ Edited([sig EXCEPT !.udop = TRUE],
                      "AddUnsignedDataObjectProperties")
       \/ sig.dialect = "V132" /\ sig.scPresent
            /\ Edited([sig EXCEPT !.scPresent = FALSE],
                      "DropSigningCertificate")
       \/ sig.scCount = 1
            /\ Edited([sig EXCEPT !.scCount = 2], "AddSigningCertificateCert")
       \/ \E c \in {"rogue", "bare"} :
            /\ sig.scIssuer # c
            /\ Edited([sig EXCEPT !.scIssuer = c], "SetIssuerName")
       \/ sig.scSerial # "rogue"
            /\ Edited([sig EXCEPT !.scSerial = "rogue"], "SetSerialNumber")
       \/ \E a \in AllDigestAlgs :
            /\ a # sig.scAlg
            /\ Edited([sig EXCEPT !.scAlg = a], "SetCertDigestMethod")
       \/ Edited([sig EXCEPT !.scDigest = FlipBit(@)], "FlipCertDigest")

SetKeyInfo ==
    /\ CanEdit
    /\ \/ sig.keyInfo /\ Edited([sig EXCEPT !.keyInfo = FALSE], "DropKeyInfo")
       \/ \E k \in {0, 2} :
            /\ sig.x509Data = 1
            /\ Edited([sig EXCEPT !.x509Data = k], "SetX509DataCount")
       \/ \E k \in {0, 2} :
            /\ sig.x509Certs = 1
            /\ Edited([sig EXCEPT !.x509Certs = k], "SetX509CertificateCount")
       \/ \E c \in CertNames :
            /\ sig.cert # c
            /\ Edited([sig EXCEPT !.cert = c], "SetX509Certificate")

FlipSignatureValue ==
    /\ CanEdit
    /\ Edited([sig EXCEPT !.sigValue = FlipBit(@)], "FlipSignatureValue")

\* The holder of the key of the certificate in KeyInfo signs the document
\* as it stands.
Resign ==
    /\ pc = "idle"
    /\ sig.c14n \in C14nMethods
    /\ sig.sigValue # SignatureValueOver(sig)
    /\ sig' = [sig EXCEPT !.sigValue = SignatureValueOver(sig)]
    /\ lastEdit' = "Resign"
    /\ UNCHANGED <<nEdits, ovars, vvars, pvars>>

AlterDocument ==
    /\ CanEdit
    /\ \E i \in 1..bdoc.n :
         /\ i \notin bdoc.alt
         /\ bdoc' = [bdoc EXCEPT !.alt = @ \cup {i}]
    /\ nEdits' = nEdits + 1
    /\ lastEdit' = "AlterDocument"
    /\ UNCHANGED <<sig, pc, store, attempted, causes, calls, result, ran, vvars, pvars>>

(***************************************************************************)
(* validateOffline(store), one try block at a time.                        *)
(***************************************************************************)
validateOffline_Call ==
    /\ pc = "idle"
    /\ \E st \in Stores : store' = st
    /\ pc' = "A"
    /\ UNCHANGED <<sig, bdoc, nEdits, lastEdit, attempted, causes, calls,
                   result, ran, vvars, pvars>>

\* exc.add(e)
AddCause(group, msg) ==
    causes' = IF msg = OK THEN causes
              ELSE Append(causes, [group |-> group, msg |-> msg])

\* try { checkQualifyingProperties(); }
validateOffline_GroupA ==
    /\ pc = "A"
    /\ attempted' = Append(attempted, "A")
    /\ LET e == checkQualifyingProperties(sig)
       IN  \/ /\ e # UB
              /\ AddCause("A", e)
              /\ pc' = "B"
              /\ result' = result
           \* _sign->id().get() on an absent Id: the read of the absent
           \* string either faults ...
           \/ /\ e = UB
              /\ pc' = "crashed"
              /\ result' = "crash"
              /\ causes' = causes
           \* ... or yields bytes that differ from the target
           \/ /\ e = UB
              /\ AddCause("A", "QualifyingProperties target is not Signature")
              /\ pc' = "B"
              /\ result' = result
    /\ UNCHANGED <<sig, bdoc, nEdits, lastEdit, store, calls, ran, vvars, pvars>>

\* try { checkSignatureMethod(); checkReferences(); checkKeyInfo();
\*       checkSignatureValue(); }
validateOffline_GroupB ==
    /\ pc = "B"
    /\ attempted' = Append(attempted, "B")
    /\ AddCause("B", GroupB(sig, bdoc).err)
    /\ calls' = calls \o GroupB(sig, bdoc).calls
    /\ ran' = ran \o GroupB(sig, bdoc).ran
    /\ pc' = "C"
    /\ UNCHANGED <<sig, bdoc, nEdits, lastEdit, store, result, vvars, pvars>>

\* try { checkSigningCertificate(store); }
validateOffline_GroupC ==
    /\ pc = "C"
    /\ attempted' = Append(attempted, "C")
    /\ AddCause("C", checkSigningCertificate(sig, store))
    /\ pc' = "end"
    /\ UNCHANGED <<sig, bdoc, nEdits, lastEdit, store, calls, result, ran, vvars, pvars>>

\* if (exc.hasCauses()) throw exc;
validateOffline_Return ==
    /\ pc = "end"
    /\ result' = IF causes # <<>> THEN "throw" ELSE "ok"
    /\ pc' = "done"
    /\ UNCHANGED <<sig, bdoc, nEdits, lastEdit, store, attempted, causes,
                   calls, ran, vvars, pvars>>

Next ==
    \/ RemoveReference \/ DuplicateReference \/ SetReferenceType
    \/ DropReferenceType \/ DropReferenceURI \/ SlashReferenceURI
    \/ FlipReferenceDigest \/ SetAttribute \/ SetProperties \/ SetKeyInfo
    \/ FlipSignatureValue \/ Resign \/ AlterDocument
    \/ validateOffline_Call \/ validateOffline_GroupA
    \/ validateOffline_GroupB \/ validateOffline_GroupC
    \/ validateOffline_Return

Spec == Init /\ [][Next]_vars

(***************************************************************************)
(* The unsigned part of the document before validation: one change at a    *)
(* time to what the navigators read, each leaving a document the schemas   *)
(* accept (OCSPValues, OCSPRefs and DigestAlgAndValue are optional, an     *)
(* OCSPRefs has an OCSPRef and an OCSPValues an EncapsulatedOCSPValue).    *)
(***************************************************************************)
HasTM(s) == s.unsignedProps /\ s.usp = 1

SetUnsignedSignatureProperties ==
    /\ CanEdit
    /\ HasTM(sig)
    /\ \/ Edited(NoUnsignedSignatureProperties @@ sig,
                 "DropUnsignedSignatureProperties")
       \/ \E r \in {"absent", "noOCSPValues"} :
            /\ sig.rv = "ok"
            /\ Edited([sig EXCEPT !.rv = r, !.ocspResp = NoResponse],
                      "DropRevocationValues")
       \/ \E c \in {"absent", "noOCSPRefs", "noDigest"} :
            /\ sig.crr = "ok"
            /\ Edited([sig EXCEPT !.crr = c, !.refAlg = "none",
                                  !.refDv = NoDigest],
                      "DropCompleteRevocationRefs")
       \/ \E a \in AllDigestAlgs :
            /\ sig.crr = "ok" /\ sig.refAlg # a
            /\ Edited([sig EXCEPT !.refAlg = a], "SetOCSPRefDigestMethod")
       \/ sig.crr = "ok"
            /\ Edited([sig EXCEPT !.refDv = FlipBit(@)], "FlipOCSPRefDigest")

\* One bit of EncapsulatedOCSPValue flipped: in the signed assertion (the
\* nonce), in the responder's signature, or in the bytes neither covers.
FlipOCSPResponse ==
    /\ CanEdit
    /\ HasTM(sig) /\ sig.rv = "ok"
    /\ \/ Edited([sig EXCEPT !.ocspResp.tbs.nonce = FlipBit(@)],
                 "FlipOCSPResponseData")
       \/ Edited([sig EXCEPT !.ocspResp.sig = FlipBit(@)],
                 "FlipOCSPResponseSignature")
       \/ Edited([sig EXCEPT !.ocspResp.pad = 1 - @],
                 "FlipOCSPResponsePadding")

(***************************************************************************)
(* The methods of SignatureValidator, a step at a time.                    *)
(***************************************************************************)
\* MaxCalls bounds the changes to the document and the calls on one
\* validator together.
CanCall == pc = "idle" /\ vpc = "idle" /\ nEdits + nCalls < MaxCalls

\* How many calls of op, one right after the other, hist ends with.  A
\* call that repeats the one before it is not counted in MaxCalls; there
\* are at most MaxRepeats calls in such a row.
Repeats(op) ==
    LET other == { i \in 1..Len(hist) : hist[i].op # op }
    IN  Len(hist) - (IF other = {} THEN 0 ELSE SetMax(other))

\* The log entries of the running call, which will be hist[Len(hist) + 1].
Tag(log) == [i \in 1..Len(log) |-> log[i] @@ [call |-> Len(hist) + 1]]

Ended(op, kind, val) == hist' = Append(hist, [op |-> op, kind |-> kind,
                                              val |-> val])

\* std::auto_ptr<OCSP> ocsp(prepare());
Prepare(op, next) ==
    /\ nCalls' = nCalls + 1
    /\ LET p == prepare(sig, conf, v)
       IN  /\ v' = p.v
           /\ ocspLog' = ocspLog \o Tag(p.log)
           /\ IF p.err = OK
              THEN vpc' = next /\ hist' = hist
              ELSE vpc' = "idle" /\ Ended(op, "throw", p.err)
    /\ UNCHANGED <<sig, nEdits, lastEdit, ovars, pvars, conf, tmOut, reparsed,
                   reported>>

validateBESOnline_Prepare ==
    /\ CanCall
    /\ Prepare("validateBESOnline", "checkCert")

\* return ocsp->checkCert(...): the responder answers with a status for the
\* certificate, echoing the nonce, or the transport fails.
validateBESOnline_CheckCert ==
    /\ vpc = "checkCert"
    /\ vpc' = "idle"
    /\ LET rq == validateBESOnline_Request(sig, conf, v)
       IN  \/ \E st \in CertStatuses :
                LET resp == Response(st, rq.nonce, conf.now)
                IN  /\ v' = [v EXCEPT !.ocspResponse = resp,
                                      !.producedAt = conf.now]
                    /\ ocspLog' = ocspLog \o Tag(<<
                         [ev |-> "checkCert", rq |-> rq, status |-> st,
                          resp |-> resp, producedAt |-> conf.now]>>)
                    /\ Ended("validateBESOnline", "status", st)
           \/ /\ v' = v
              /\ ocspLog' = ocspLog \o Tag(<<
                   [ev |-> "checkCert", rq |-> rq, status |-> "none",
                    resp |-> NoResponse, producedAt |-> 0]>>)
              /\ Ended("validateBESOnline", "throw", "IO")
    /\ UNCHANGED <<sig, nEdits, lastEdit, ovars, pvars, conf, nCalls, tmOut,
                   reparsed, reported>>

validateTMOffline_Prepare ==
    /\ CanCall
    /\ Prepare("validateTMOffline", "extract")

Crashed(op) == vpc' = "crashed" /\ Ended(op, "crash", "")
Threw(op, msg) == vpc' = "idle" /\ Ended(op, "throw", msg)

\* _sig->getOCSPResponseValue(_ocspResponse);
validateTMOffline_Extract ==
    /\ vpc = "extract"
    /\ LET r == getOCSPResponseValue(sig)
       IN  \/ /\ r.err = OK
              /\ v' = [v EXCEPT !.ocspResponse = r.val]
              /\ vpc' = "verify" /\ hist' = hist
           \/ /\ r.err \notin {OK, UB}
              /\ v' = v
              /\ Threw("validateTMOffline", r.err)
           \* t.oCSPValues().get() without OCSPValues: the read faults ...
           \/ /\ r.err = UB
              /\ v' = v
              /\ Crashed("validateTMOffline")
           \* ... or copies bytes that are no response
           \/ /\ r.err = UB
              /\ v' = [v EXCEPT !.ocspResponse = GarbageResponse]
              /\ vpc' = "verify" /\ hist' = hist
    /\ UNCHANGED <<sig, nEdits, lastEdit, ovars, pvars, conf, nCalls, ocspLog, tmOut,
                   reparsed, reported>>

\* ocsp->verifyResponse(_ocspResponse);
validateTMOffline_Verify ==
    /\ vpc = "verify"
    /\ LET e == verifyResponse(conf, { v.ocspCerts[i] :
                                         i \in 1..Len(v.ocspCerts) },
                               v.ocspResponse)
       IN  /\ ocspLog' = ocspLog \o Tag(<<[ev |-> "verifyResponse",
                                           resp |-> v.ocspResponse,
                                           err |-> e]>>)
           /\ IF e = OK
              THEN vpc' = "nonce" /\ hist' = hist
              ELSE Threw("validateTMOffline", e)
    /\ UNCHANGED <<sig, nEdits, lastEdit, ovars, pvars, conf, v, nCalls, tmOut,
                   reparsed, reported>>

\* A step of validateTMOffline whose outcome is e; where e is UB the read
\* through the absent element faults or yields a string that is no
\* algorithm URI.
TMStep(e, next) ==
    \/ /\ e = OK
       /\ IF next = "idle"
          THEN vpc' = "idle" /\ Ended("validateTMOffline", "ok", "")
          ELSE vpc' = next /\ hist' = hist
    \/ /\ e \notin {OK, UB}
       /\ Threw("validateTMOffline", e)
    \/ /\ e = UB
       /\ Crashed("validateTMOffline")
    \/ /\ e = UB
       /\ Threw("validateTMOffline", UnsupportedDigest)

\* respNonce = ocsp->getNonce(_ocspResponse); ... if (nonce != respNonce)
validateTMOffline_Nonce ==
    /\ vpc = "nonce"
    /\ TMStep(checkNonce(sig, conf, v.ocspResponse), "ocspRef")
    /\ UNCHANGED <<sig, nEdits, lastEdit, ovars, pvars, conf, v, nCalls, ocspLog,
                   tmOut, reparsed, reported>>

\* _sig->getRevocationOCSPRef(...); ... if (ocspResponseHash != ...)
validateTMOffline_OCSPRef ==
    /\ vpc = "ocspRef"
    /\ TMStep(checkOCSPRef(sig, v.ocspResponse), "idle")
    /\ UNCHANGED <<sig, nEdits, lastEdit, ovars, pvars, conf, v, nCalls, ocspLog,
                   tmOut, reparsed, reported>>

\* getTMSignature(), called once prepare has loaded the responder
\* certificates.
getTMSignature_Call ==
    /\ IF Repeats("getTMSignature") = 0 THEN CanCall
       ELSE /\ pc = "idle" /\ vpc = "idle"
            /\ Repeats("getTMSignature") < MaxRepeats
    /\ v.ocspCerts # <<>>
    /\ nCalls' = IF Repeats("getTMSignature") = 0 THEN nCalls + 1 ELSE nCalls
    /\ \/ \E attached \in BOOLEAN :
            \* unsignedprops->appendChild(...) on the NULL that item(0)
            \* returns without UnsignedProperties: where it does not fault
            \* the new element stays outside the document
            /\ attached = sig.unsignedProps
            /\ LET r == getTMSignature(sig, conf, v, attached)
               IN  /\ ocspLog' = ocspLog \o Tag(<<[ev |-> "getCert",
                                                   name |-> ResponderIssuer]>>)
                   /\ IF r.err = OK
                      THEN /\ tmOut' = r.out
                           /\ vpc' = "idle"
                           /\ Ended("getTMSignature", "string", "")
                      ELSE /\ tmOut' = tmOut
                           /\ Threw("getTMSignature", r.err)
       \/ /\ ~sig.unsignedProps
          /\ Crashed("getTMSignature")
          /\ UNCHANGED <<ocspLog, tmOut>>
    /\ UNCHANGED <<sig, nEdits, lastEdit, ovars, pvars, conf, v, reparsed, reported>>

\* ~SignatureValidator(): frees what _ocspCerts and _issuerX509 point to.
SignatureValidator_Destroy ==
    /\ pc = "idle" /\ vpc = "idle"
    /\ nCalls > 0
    /\ vpc' = "destroyed"
    /\ v' = [v EXCEPT
               !.stacks = IF v.ocspCerts # <<>>
                          THEN [@ EXCEPT ![Len(@)] = @ + 1] ELSE @,
               !.x509 = IF v.issuerX509 # "null"
                        THEN [@ EXCEPT ![Len(@)] = @ + 1] ELSE @]
    /\ UNCHANGED <<sig, nEdits, lastEdit, ovars, pvars, conf, nCalls, hist, ocspLog,
                   tmOut, reparsed, reported>>

\* The caller parses the returned document and makes a validator for it
\* with the same configuration, on which it makes one call.
Reparse ==
    /\ pc = "idle" /\ vpc = "idle"
    /\ tmOut.present
    /\ reparsed = "no"
    /\ LET p == parse(tmOut)
       IN  /\ sig' = p.sig
           /\ reparsed' = IF p.err = OK THEN "ok" ELSE "failed"
           /\ hist' = Append(hist, [op |-> "parse",
                                    kind |-> IF p.err = OK THEN "ok"
                                             ELSE "throw",
                                    val |-> p.err])
    /\ reported' = xsd2string(v.producedAt)
    /\ v' = NewValidator
    /\ nCalls' = MaxCalls - 1
    /\ UNCHANGED <<nEdits, lastEdit, ovars, pvars, conf, vpc, ocspLog, tmOut>>

\* The signatures online and offline TM validation start from: BES
\* signatures with and without UnsignedProperties, and the TM signatures
\* made of them.
TMBases ==
    LET bes == { BaseSignature(st, 1) : st \in Styles }
        up == { WithUnsignedProperties(b) : b \in bes }
    IN  bes \cup up
        \cup { TMSignature(b, a, t) :
                 b \in up, a \in {"sha1", "sha256"}, t \in 1..2 }

InitTM ==
    /\ sig \in TMBases
    /\ bdoc = [n |-> 1, alt |-> {}]
    /\ conf \in Confs
    /\ NoValidation
    /\ NoOfflineValidation
    /\ nEdits = 0
    /\ lastEdit = "none"
    /\ NotParsing

NextTM ==
    \/ FlipSignatureValue \/ SetKeyInfo
    \/ SetUnsignedSignatureProperties \/ FlipOCSPResponse
    \/ validateBESOnline_Prepare \/ validateBESOnline_CheckCert
    \/ getTMSignature_Call \/ Reparse
    \/ validateTMOffline_Prepare \/ validateTMOffline_Extract
    \/ validateTMOffline_Verify \/ validateTMOffline_Nonce
    \/ validateTMOffline_OCSPRef \/ SignatureValidator_Destroy

SpecTM == InitTM /\ [][NextTM]_vars

(***************************************************************************)
(* Signature::parse: the choice of the dialect from the Object elements of *)
(* the document, each given by how many QualifyingProperties of XAdES      *)
(* 1.3.2 (qp) and of XAdES 1.1.1 (qp1) it holds.                           *)
(***************************************************************************)
MaxObjects == 2
MaxProps == 2

NoObject == "Signature block 'Object' is missing."
ManyObjects == "Signature block contains more than one 'Object' block."
NoQualifyingProperties == "Signature block 'QualifyingProperties' is missing."
ManyQualifyingProperties ==
    "Signature block 'Object' contains more than one 'QualifyingProperties' block."

\* A slip in parse: a non-empty sequence is taken whatever its size.
parseObject_AnySize(os) ==
    IF os = <<>> THEN [err |-> NoObject, dialect |-> "none"]
    ELSE IF Len(os) # 1 THEN [err |-> ManyObjects, dialect |-> "none"]
    ELSE LET o == os[1]
         IN  IF o.qp = 0 /\ o.qp1 = 0
             THEN [err |-> NoQualifyingProperties, dialect |-> "none"]
             ELSE IF o.qp = 0 /\ o.qp1 # 0
             THEN [err |-> OK, dialect |-> "V111"]
             ELSE IF o.qp # 0 /\ o.qp1 = 0
             THEN [err |-> OK, dialect |-> "V132"]
             ELSE [err |-> ManyQualifyingProperties, dialect |-> "none"]

parseObject(os) ==
    IF os = <<>> THEN [err |-> NoObject, dialect |-> "none"]
    ELSE IF Len(os) # 1 THEN [err |-> ManyObjects, dialect |-> "none"]
    ELSE LET o == os[1]
         IN  IF o.qp = 0 /\ o.qp1 = 0
             THEN [err |-> NoQualifyingProperties, dialect |-> "none"]
             ELSE IF o.qp = 0 /\ o.qp1 # 0
             THEN IF o.qp1 # 1
                  THEN [err |-> ManyQualifyingProperties, dialect |-> "none"]
                  ELSE [err |-> OK, dialect |-> "V111"]
             ELSE IF o.qp # 0 /\ o.qp1 = 0
             THEN IF o.qp # 1
                  THEN [err |-> ManyQualifyingProperties, dialect |-> "none"]
                  ELSE [err |-> OK, dialect |-> "V132"]
             ELSE [err |-> ManyQualifyingProperties, dialect |-> "none"]

Objects == [qp : 0..MaxProps, qp1 : 0..MaxProps]

ObjectSequences == UNION { [1..n -> Objects] : n \in 0..MaxObjects }

InitParse ==
    /\ xml \in ObjectSequences
    /\ parsed = NotParsed
    /\ c14n11 = TRUE /\ digested = NotDigested
    /\ sig = [dialect |-> "none"]
    /\ bdoc = [n |-> 0, alt |-> {}]
    /\ conf = CHOOSE cf \in Confs : cf.maxAge = 0
    /\ NoValidation
    /\ NoOfflineValidation
    /\ nEdits = 0
    /\ lastEdit = "none"

Signature_parse ==
    /\ parsed = NotParsed
    /\ parsed' = parseObject(xml)
    /\ sig' = [dialect |-> parseObject(xml).dialect]
    /\ UNCHANGED <<xml, c14n11, digested, nEdits, lastEdit, ovars, vvars>>

NextParse == Signature_parse

SpecParse == InitParse /\ [][NextParse]_vars

(***************************************************************************)
(* calcDigestOnNode on its own: in either build, on SignedProperties or    *)
(* SignedInfo of a signature with any CanonicalizationMethod.              *)
(***************************************************************************)
InitDigest ==
    /\ \E st \in Styles, m \in AllC14nMethods :
         sig = [BaseSignature(st, 0) EXCEPT !.c14n = m]
    /\ c14n11 \in BOOLEAN
    /\ digested = NotDigested
    /\ xml = <<>> /\ parsed = NotParsed
    /\ bdoc = [n |-> 0, alt |-> {}]
    /\ conf = CHOOSE cf \in Confs : cf.maxAge = 0
    /\ NoValidation
    /\ NoOfflineValidation
    /\ nEdits = 0
    /\ lastEdit = "none"

calcDigestOnNode_Call ==
    /\ digested = NotDigested
    /\ \E alg \in DigestAlgs,
          node \in {SignedPropertiesNode(sig), SignedInfoNode(sig)} :
         digested' = calcDigestOnNode(sig, alg, 1, node, c14n11)
    /\ UNCHANGED <<sig, xml, parsed, c14n11, nEdits, lastEdit, ovars, vvars>>

NextDigest == calcDigestOnNode_Call

SpecDigest == InitDigest /\ [][NextDigest]_vars

(***************************************************************************)
(* What the claims speak of.                                               *)
(***************************************************************************)
\* The message group g added to exc, or OK.
CauseOf(g) ==
    LET k == { i \in 1..Len(causes) : causes[i].group = g }
    IN  IF k = {} THEN OK ELSE causes[SetMin(k)].msg

Groups == <<"A", "B", "C">>

\* Whether a group's checks fail on the document as it stands; an
\* unchecked access counts as a failure of the group.
GroupFails(g) ==
    CASE g = "A" -> checkQualifyingProperties(sig) # OK
      [] g = "B" -> GroupB(sig, bdoc).err # OK
      [] g = "C" -> checkSigningCertificate(sig, store) # OK

Returned == result \in {"ok", "throw", "crash"}

\* The Type names a SignedProperties reference, as the specification words
\* it: present, starting with the prefix and ending with the suffix.
StartsWith(t, x) == Len(t) >= Len(x) /\ SubSeq(t, 1, Len(x)) = x
EndsWith(t, x) ==
    Len(t) >= Len(x) /\ SubSeq(t, Len(t) - Len(x) + 1, Len(t)) = x
IsSigPropsReference(r) ==
    /\ r.hasType
    /\ StartsWith(TypeText(r.type), SIGPROPS_PREFIX)
    /\ EndsWith(TypeText(r.type), SIGPROPS_SUFFIX)
SigPropsRefs == { i \in 1..Len(sig.refs) : IsSigPropsReference(sig.refs[i]) }

\* The second try block has run and checkReferences was called in it.
ReferencesChecked ==
    pc \in {"C", "end", "done"} /\ checkSignatureMethod(sig) = OK

CountMessage == "Number of references in SignedInfo is invalid"
NoSigPropsMessage == "SignedInfo does not contain reference to SignedProperties"
NoUriMessage == "Document reference is missing attribute 'URI'"
NoMatchMessage == "Document references didn't match"

\* C1: validateOffline always attempts all three groups, whatever an
\* earlier group did; it throws the combined error iff at least one group
\* failed, with one cause for each failed group, and returns normally iff
\* all three groups succeeded.
C1_AllGroupsAttempted ==
    Returned =>
      /\ attempted = Groups
      /\ (result = "throw") = (\E i \in 1..3 : GroupFails(Groups[i]))
      /\ (result = "ok") = (\A i \in 1..3 : ~GroupFails(Groups[i]))
      /\ \A i \in 1..3 :
           Cardinality({ k \in 1..Len(causes) : causes[k].group = Groups[i] })
             = IF GroupFails(Groups[i]) THEN 1 ELSE 0

\* C2: whenever the number of references differs from documentCount()+1,
\* checkReferences fails on the count and validateOffline does not
\* succeed; a valid signature with one reference removed or duplicated
\* makes validateOffline throw with that cause.
C2_ReferenceCount ==
    /\ (Len(sig.refs) # documentCount(bdoc) + 1) =>
         /\ result # "ok"
         /\ ReferencesChecked => CauseOf("B") = CountMessage
    /\ ( /\ pc = "done"
         /\ nEdits = 1
         /\ lastEdit \in {"RemoveReference", "DuplicateReference"} ) =>
         result = "throw" /\ CauseOf("B") = CountMessage

C2_Witness ==
    /\ pc = "done"
    /\ nEdits = 1
    /\ lastEdit = "DuplicateReference"
    /\ store = "trusting"
    /\ result = "throw"
    /\ causes = <<[group |-> "B", msg |-> CountMessage]>>

\* C3 as stated: checkReferences succeeds only with exactly one
\* SignedProperties reference; with none it fails with "does not contain
\* reference to SignedProperties", with two or more it fails; every other
\* reference is passed on as a document reference.
C3_Original ==
    ReferencesChecked =>
      /\ CauseOf("B") \notin {CountMessage, NoSigPropsMessage}
           => Cardinality(SigPropsRefs) >= 1
      /\ Cardinality(SigPropsRefs) = 0 => CauseOf("B") = NoSigPropsMessage
      /\ Cardinality(SigPropsRefs) >= 2 => CauseOf("B") # OK
      /\ checkReferences(sig, bdoc).err = OK => Cardinality(SigPropsRefs) = 1

\* C3, amended: with no SignedProperties reference checkReferences fails,
\* with "does not contain reference to SignedProperties" when the number
\* of references is documentCount()+1 and with the count's message
\* otherwise; with two or more it fails; it succeeds only with exactly
\* one, and then every other reference, and no SignedProperties
\* reference, was passed to checkDocument.
C3_SigPropsReference ==
    ReferencesChecked =>
      /\ Cardinality(SigPropsRefs) = 0 =>
           CauseOf("B") = IF Len(sig.refs) = documentCount(bdoc) + 1
                          THEN NoSigPropsMessage ELSE CountMessage
      /\ Cardinality(SigPropsRefs) >= 2 => CauseOf("B") # OK
      /\ checkReferences(sig, bdoc).err = OK =>
           /\ Cardinality(SigPropsRefs) = 1
           /\ Cardinality({ k \in 1..Len(calls) :
                              calls[k].op = "checkDocument" })
                = Len(sig.refs) - 1
           /\ \A i \in 1..Len(sig.refs) :
                IsSigPropsReference(sig.refs[i]) <=>
                  ~(\E k \in 1..Len(calls) :
                      /\ calls[k].op = "checkDocument"
                      /\ calls[k].dv = sig.refs[i].dv)

C3_Witness ==
    /\ pc = "done"
    /\ Cardinality(SigPropsRefs) = 0
    /\ Len(sig.refs) = 2
    /\ CauseOf("B") = NoSigPropsMessage

\* The checkDocument calls the protocol asks for: one for each reference
\* refs[from..] that is not to SignedProperties, in order, its URI without
\* one leading '/'.
RECURSIVE ExpectedDocCalls(_, _)
ExpectedDocCalls(refs, from) ==
    IF from > Len(refs) THEN <<>>
    ELSE IF IsSigPropsReference(refs[from])
    THEN ExpectedDocCalls(refs, from + 1)
    ELSE <<CallDoc(IF refs[from].uri # <<>> /\ Head(refs[from].uri) = "/"
                   THEN Tail(refs[from].uri) ELSE refs[from].uri,
                   refs[from].alg, refs[from].dv)>>
            \o ExpectedDocCalls(refs, from + 1)

\* The references before the first document reference without a URI.
UpToMissingURI(refs) ==
    LET bad == { i \in 1..Len(refs) :
                   ~IsSigPropsReference(refs[i]) /\ ~refs[i].hasUri }
    IN  IF bad = {} THEN refs ELSE SubSeq(refs, 1, SetMin(bad) - 1)

\* C4 as stated: once the document check has begun, the calls on
\* ContainerInfo are checkDocumentsBegin, checkDocument once for each
\* reference that is not to SignedProperties, in order, and
\* checkDocumentsResult; a false result fails the reference check.
C4_Original ==
    (pc \in {"C", "end", "done"} /\ calls # <<>>) =>
      /\ calls = <<CallBegin>> \o ExpectedDocCalls(sig.refs, 1)
                   \o <<CallResult>>
      /\ ~checkDocumentsResult(bdoc, ExpectedDocCalls(sig.refs, 1))
           => CauseOf("B") = NoMatchMessage

\* C4, amended: checkDocument is called once for each reference that is
\* not to SignedProperties, in order, up to the first such reference that
\* has no URI attribute; there the check fails with "Document reference is
\* missing attribute 'URI'" and checkDocumentsResult is not called.  When
\* every such reference has a URI, checkDocumentsResult is called once
\* after all of them and a false result fails the reference check, so an
\* altered container document makes validateOffline fail.
C4_DocumentProtocol ==
    /\ (pc \in {"C", "end", "done"} /\ calls # <<>>) =>
         IF UpToMissingURI(sig.refs) # sig.refs
         THEN /\ calls = <<CallBegin>>
                           \o ExpectedDocCalls(UpToMissingURI(sig.refs), 1)
              /\ CauseOf("B") = NoUriMessage
         ELSE /\ calls = <<CallBegin>> \o ExpectedDocCalls(sig.refs, 1)
                           \o <<CallResult>>
              /\ ~checkDocumentsResult(bdoc, ExpectedDocCalls(sig.refs, 1))
                   => CauseOf("B") = NoMatchMessage
    /\ (pc = "done" /\ nEdits = 1 /\ lastEdit = "AlterDocument") =>
         result = "throw" /\ CauseOf("B") = NoMatchMessage

C4_Witness ==
    /\ pc = "done"
    /\ bdoc.n = 2
    /\ nEdits = 1
    /\ lastEdit = "AlterDocument"
    /\ Len(calls) = 4
    /\ calls[2].uri = DocName(1)
    /\ calls[3].uri = DocName(2)
    /\ sig.refs[1].uri = <<"/">> \o DocName(1)
    /\ causes = <<[group |-> "B", msg |-> NoMatchMessage],
                  [group |-> "C", msg |-> "Unable to verify signing certificate"]>>

(***************************************************************************)
(* SignatureValidator: what the claims speak of.                           *)
(***************************************************************************)
OpOnline == "validateBESOnline"
OpTM == "validateTMOffline"
OpGetTM == "getTMSignature"

\* The last call made has ended and was a call of op.
LastIs(op) ==
    /\ vpc \in {"idle", "crashed"}
    /\ hist # <<>>
    /\ hist[Len(hist)].op = op
Last == hist[Len(hist)]

HasCN(issuer) == Occurrences(issuer, CN_EQ) # {}

\* The text after the first "CN=" of issuer, up to the first "," after it.
TextAfterFirstCN(issuer) ==
    LET start == SetMin(Occurrences(issuer, CN_EQ)) + 4
        stop == SetMin({ j \in start..Len(issuer) : issuer[j] = "," }
                       \cup {Len(issuer) + 1})
    IN  SubSeq(issuer, start, stop - 1)

\* The document names its signing certificate once, the configuration has
\* a responder for its issuer's CN and the cert store has the issuer.
Prepares(s, cf) ==
    /\ s.keyInfo /\ s.x509Data = 1 /\ s.x509Certs = 1
    /\ HasCN(getIssuerName(s.cert))
    /\ TextAfterFirstCN(getIssuerName(s.cert)) \in cf.keys
    /\ IssuerOf(s.cert) \in cf.store

\* s is a valid TM signature for a validator configured with cf: it carries
\* a fresh OCSP response signed by the configured responder, whose nonce is
\* the digest of SignatureValue and whose digest is in OCSPRef, both under
\* the algorithm OCSPRef names.
ValidTM(s, cf) ==
    /\ Prepares(s, cf)
    /\ s.unsignedProps /\ s.usp = 1 /\ s.rv = "ok" /\ s.crr = "ok"
    /\ s.refAlg \in DigestAlgs
    /\ s.ocspResp.der = "ok"
    /\ s.ocspResp.sig = [key |-> "responder", flip |-> 0,
                         signed |-> s.ocspResp.tbs]
    /\ cf.now - s.ocspResp.tbs.producedAt <= cf.maxAge
    /\ s.ocspResp.tbs.producedAt - cf.now <= cf.skew
    /\ s.ocspResp.tbs.nonce = Digest(s.refAlg, s.sigValue)
    /\ s.refDv = Digest(s.refAlg, s.ocspResp)

ResponseFlips == {"FlipOCSPResponseData", "FlipOCSPResponseSignature",
                  "FlipOCSPResponsePadding"}

\* The document before its last change, where that was the flip of a bit.
BeforeFlip(s) ==
    CASE lastEdit = "FlipOCSPResponseData" ->
           [s EXCEPT !.ocspResp.tbs.nonce = FlipBit(@)]
      [] lastEdit = "FlipOCSPResponseSignature" ->
           [s EXCEPT !.ocspResp.sig = FlipBit(@)]
      [] lastEdit = "FlipOCSPResponsePadding" ->
           [s EXCEPT !.ocspResp.pad = 1 - @]
      [] lastEdit = "FlipSignatureValue" ->
           [s EXCEPT !.sigValue = FlipBit(@)]
      [] OTHER -> s

\* validateTMOffline has ended on a valid TM signature one bit of which,
\* named by flips, was flipped.
FlippedValidTM(flips) ==
    /\ LastIs(OpTM)
    /\ reparsed = "no"
    /\ nEdits = 1
    /\ lastEdit \in flips
    /\ ValidTM(BeforeFlip(sig), conf)

\* C5 as stated: validateTMOffline succeeds only if the digest of the
\* encapsulated response under the OCSPRef algorithm equals the OCSPRef
\* DigestValue, and any flipped bit of the encapsulated response of a valid
\* TM signature makes it fail with OCSPRefMismatch.
C5_Original ==
    /\ (LastIs(OpTM) /\ Last.kind = "ok") =>
         /\ sig.crr = "ok"
         /\ Digest(sig.refAlg, sig.ocspResp) = sig.refDv
    /\ FlippedValidTM(ResponseFlips) =>
         Last.kind = "throw" /\ Last.val = OCSPRefMismatch

\* C5: validateTMOffline succeeds only if the digest of the encapsulated
\* response, which is the response it verified, equals the OCSPRef
\* DigestValue under the OCSPRef algorithm.  A flipped bit of the
\* encapsulated response of a valid TM signature always makes it fail: with
\* OCSPRefMismatch when the bit is outside what the responder signed and
\* outside its signature, and already in verifyResponse (OCSPBadSignature)
\* when it is inside, because the response is verified before its digest is
\* compared.
C5_OCSPRefBinding ==
    /\ (LastIs(OpTM) /\ Last.kind = "ok") =>
         /\ sig.crr = "ok"
         /\ v.ocspResponse = sig.ocspResp
         /\ Digest(sig.refAlg, sig.ocspResp) = sig.refDv
    /\ FlippedValidTM(ResponseFlips) =>
         /\ Last.kind = "throw"
         /\ Last.val = IF lastEdit = "FlipOCSPResponsePadding"
                       THEN OCSPRefMismatch
                       ELSE "OCSPBadSignature"

C5_Witness ==
    /\ FlippedValidTM({"FlipOCSPResponsePadding"})
    /\ sig.dialect = "V111"
    /\ Last = [op |-> OpTM, kind |-> "throw", val |-> OCSPRefMismatch]
    /\ ocspLog[Len(ocspLog)].ev = "verifyResponse"
    /\ ocspLog[Len(ocspLog)].err = OK

\* C6: validateTMOffline succeeds only if the nonce of the OCSP response
\* equals the digest of the SignatureValue bytes under the algorithm that
\* OCSPRef[0]/DigestAlgAndValue/DigestMethod names; it succeeds on a valid
\* TM signature whatever digest the configuration names; and a flipped bit
\* of SignatureValue of a valid TM signature makes it fail with
\* NonceMismatch.
C6_NonceBinding ==
    /\ (LastIs(OpTM) /\ Last.kind = "ok") =>
         /\ sig.crr = "ok"
         /\ getNonce(v.ocspResponse) = Digest(sig.refAlg, sig.sigValue)
    /\ (LastIs(OpTM) /\ reparsed = "no" /\ ValidTM(sig, conf)) =>
         Last.kind = "ok"
    /\ FlippedValidTM({"FlipSignatureValue"}) =>
         Last.kind = "throw" /\ Last.val = NonceMismatch

C6_Witness ==
    /\ FlippedValidTM({"FlipSignatureValue"})
    /\ sig.refAlg # conf.digestURI
    /\ Last = [op |-> OpTM, kind |-> "throw", val |-> NonceMismatch]

\* Call i was getTMSignature, made right after a validateBESOnline that
\* returned a status.
AfterOnline(i) ==
    /\ i \in 2..Len(hist)
    /\ hist[i].op = OpGetTM
    /\ hist[i - 1].op = OpOnline
    /\ hist[i - 1].kind = "status"

\* What OCSP::checkCert was given and returned in call i.
CheckCertOf(i) ==
    LET k == CHOOSE k \in 1..Len(ocspLog) :
               ocspLog[k].call = i /\ ocspLog[k].ev = "checkCert"
    IN  ocspLog[k]

\* C7: after a completed validateBESOnline, getTMSignature returns a
\* document that parses; validateTMOffline on the parsed document, with the
\* same configuration, succeeds; and the producedAt read from the parsed
\* document is the one the validator reported.
C7_RoundTrip ==
    \A i \in 1..Len(hist) :
      AfterOnline(i) =>
        /\ hist[i].kind = "string"
        /\ (Len(hist) > i /\ hist[i + 1].op = "parse") =>
             /\ hist[i + 1].kind = "ok"
             /\ getProducedAt(sig).err = OK
             /\ getProducedAt(sig).val = reported
        /\ (Len(hist) > i + 1 /\ hist[i + 1].op = "parse"
              /\ hist[i + 2].op = OpTM) =>
             hist[i + 2].kind = "ok"

UnsignedSignaturePropertiesNames ==
    <<"CertificateValues", "RevocationValues", "CompleteCertificateRefs",
      "CompleteRevocationRefs">>

\* C8: after a completed validateBESOnline, getTMSignature returns the XML
\* declaration, a newline and the canonical form of the document with an
\* UnsignedSignatureProperties under UnsignedProperties that holds, in this
\* order, CertificateValues (responder and issuer certificate),
\* RevocationValues with the response the online call captured,
\* CompleteCertificateRefs, and CompleteRevocationRefs with the digest of
\* that response under Configuration.digestURI and the captured producedAt.
C8_Augmentation ==
    \A i \in 1..Len(hist) :
      AfterOnline(i) =>
        /\ hist[i].kind = "string"
        /\ (i = Len(hist)) =>
             LET a == tmOut.body.node.appended
                 c == a.children
                 got == CheckCertOf(i - 1)
             IN  /\ tmOut.decl = "<?xml version=\"1.0\" encoding=\"UTF-8\"?>\n"
                 /\ tmOut.body.setting = C14nSetting("c14n")
                 /\ tmOut.body.node.doc = sig
                 /\ a.parent = "UnsignedProperties"
                 /\ [k \in 1..Len(c) |-> c[k].name]
                      = UnsignedSignaturePropertiesNames
                 /\ c[1].certs = <<"responder", IssuerOf(sig.cert)>>
                 /\ c[2].encapsulated = got.resp
                 /\ c[4].alg = conf.digestURI
                 /\ c[4].dv = Digest(conf.digestURI, got.resp)
                 /\ c[4].producedAt = xsd2string(got.producedAt)

\* C9: a validateBESOnline that reaches the OCSP client gives it the
\* signing certificate, its issuer's certificate from the store and, as the
\* nonce, the digest of the SignatureValue bytes under
\* Configuration.digestURI; it stores the response and the producedAt the
\* client returned, and returns the client's status, whichever of GOOD,
\* REVOKED and UNKNOWN it is.
C9_OnlineStatus ==
    /\ \A k \in 1..Len(ocspLog) :
         (ocspLog[k].ev = "checkCert" /\ ocspLog[k].call <= Len(hist)) =>
           /\ hist[ocspLog[k].call].op = OpOnline
           /\ ocspLog[k].rq =
                [cert |-> sig.cert, issuer |-> IssuerOf(sig.cert),
                 nonce |-> Digest(conf.digestURI, sig.sigValue)]
           /\ ocspLog[k].status \in CertStatuses =>
                hist[ocspLog[k].call] =
                  [op |-> OpOnline, kind |-> "status",
                   val |-> ocspLog[k].status]
    /\ (LastIs(OpOnline) /\ Last.kind = "status") =>
         /\ v.ocspResponse = CheckCertOf(Len(hist)).resp
         /\ v.producedAt = CheckCertOf(Len(hist)).producedAt
         /\ v.ocspResponse.tbs.status = Last.val
         /\ v.signingCert = sig.cert

C9_Witness ==
    /\ LastIs(OpOnline)
    /\ Last = [op |-> OpOnline, kind |-> "status", val |-> "REVOKED"]
    /\ conf.digestURI = "sha256"
    /\ v.ocspResponse.tbs.nonce = Digest("sha256", sig.sigValue)
    /\ v.producedAt = conf.now

\* The entries call i left in the log.
LogOf(i) == { k \in 1..Len(ocspLog) : ocspLog[k].call = i }

\* Call i, ended or running, is a call of validateBESOnline or of
\* validateTMOffline.
RunsPrepare(i) == i > Len(hist) \/ hist[i].op \in {OpOnline, OpTM}

EndedWith(i, msg) ==
    /\ i <= Len(hist)
    /\ hist[i].kind = "throw"
    /\ hist[i].val = msg

MissingElement ==
    { "Missing UnsignedProperties",
      "Unsigned signature properties missing",
      "Revocation values missing",
      "Missing UnsignedProperties/UnsignedSignatureProperties/CompleteRevocationRefs/OCSPRefs/OCSPRef/DigestAlgAndValue element" }

NoUnsignedSigProps(s) == ~s.unsignedProps \/ s.usp = 0

\* C11: on every document in which an element on a navigator's path is
\* absent (UnsignedProperties, UnsignedSignatureProperties, RevocationValues,
\* OCSPValues for getOCSPResponseValue; those two and CompleteRevocationRefs,
\* OCSPRefs, DigestAlgAndValue for ocspDigestAlgorithm and
\* getRevocationOCSPRef; CompleteRevocationRefs and OCSPRefs for
\* getProducedAt) the navigator throws MissingElement: it neither returns a
\* value nor reads through the absent element, so no validateTMOffline ends
\* in a fault.
C11_Navigators ==
    LastIs(OpTM) =>
      /\ (NoUnsignedSigProps(sig) \/ sig.rv # "ok") =>
           getOCSPResponseValue(sig).err \in MissingElement
      /\ (NoUnsignedSigProps(sig) \/ sig.crr # "ok") =>
           /\ ocspDigestAlgorithm(sig).err \in MissingElement
           /\ getRevocationOCSPRef(sig).err \in MissingElement
      /\ (NoUnsignedSigProps(sig) \/ sig.crr \in {"absent", "noOCSPRefs"}) =>
           getProducedAt(sig).err \in MissingElement
      /\ Last.kind # "crash"

\* C12: once the validator is destroyed, every issuer X509 handle and every
\* responder certificate stack that prepare acquired in any of the calls
\* made on it has been freed exactly once.
C12_Released ==
    vpc = "destroyed" =>
      /\ \A h \in 1..Len(v.x509) : v.x509[h] = 1
      /\ \A h \in 1..Len(v.stacks) : v.stacks[h] = 1

InvalidStructure ==
    {NoObject, ManyObjects, NoQualifyingProperties, ManyQualifyingProperties}

\* C13: parse makes a v1.1.1 signature exactly when the document has one
\* Object that holds no QualifyingProperties of 1.3.2 and exactly one of
\* 1.1.1, a v1.3.2 signature exactly when the one Object holds exactly one
\* of 1.3.2 and none of 1.1.1, and fails with InvalidStructure otherwise.
C13_Dialect ==
    parsed # NotParsed =>
      LET one == Len(xml) = 1
          is111 == one /\ xml[1].qp = 0 /\ xml[1].qp1 = 1
          is132 == one /\ xml[1].qp = 1 /\ xml[1].qp1 = 0
      IN  /\ (parsed.err = OK /\ parsed.dialect = "V111") <=> is111
          /\ (parsed.err = OK /\ parsed.dialect = "V132") <=> is132
          /\ (~is111 /\ ~is132) <=>
               (parsed.err \in InvalidStructure /\ parsed.dialect = "none")

\* parse refused an Object with two QualifyingProperties of one dialect.
C13_Witness ==
    /\ parsed # NotParsed
    /\ Len(xml) = 1
    /\ xml[1].qp + xml[1].qp1 > 1
    /\ xml[1].qp * xml[1].qp1 = 0
    /\ parsed.err = ManyQualifyingProperties

\* What C14 requires of KeyInfo and SigningCertificate.
KeyInfoConditions(s) ==
    /\ s.keyInfo /\ s.x509Data = 1 /\ s.x509Certs = 1
    /\ s.signedProps
    /\ s.dialect = "V132" => s.scPresent
    /\ s.scCount = 1
    /\ getIssuerName(s.cert) = getIssuerName(s.scIssuer)
    /\ s.scSerial = s.cert
    /\ s.scAlg \in DigestAlgs
    /\ DigestSize(s.scDigest.alg) = DigestSize(s.scAlg)
    /\ s.scDigest = Digest(s.scAlg, encodeDER(s.cert))

\* C14: checkKeyInfo succeeds only if KeyInfo holds exactly one X509Data
\* with exactly one X509Certificate, SigningCertificate holds exactly one
\* Cert, the certificate's issuer and serial are those of IssuerSerial, the
\* CertDigest algorithm is supported and the digest of the DER encoding has
\* the length and the bytes of DigestValue; on a signature that violates
\* one of these validateOffline does not succeed, and where it returns it
\* throws with a cause of the second group.
C14_KeyInfo ==
    /\ checkKeyInfo(sig) = OK => KeyInfoConditions(sig)
    /\ ~KeyInfoConditions(sig) =>
         /\ result # "ok"
         /\ pc = "done" => (result = "throw" /\ CauseOf("B") # OK)

\* validateOffline threw on a signature whose only fault is that KeyInfo
\* holds another certificate than the one SigningCertificate names.
C14_Witness ==
    /\ pc = "done"
    /\ nEdits = 1
    /\ lastEdit = "SetX509Certificate"
    /\ store = "trusting"
    /\ result = "throw"
    /\ causes = <<[group |-> "B",
                   msg |-> "Signing certificate issuer information invalid"]>>

\* What C15 requires of QualifyingProperties.
GroupAConditions(s) ==
    /\ s.id # "none"
    /\ s.target = HashId(s.id)
    /\ s.signedProps
    /\ ~(s.unsignedProps /\ s.udop)
    /\ s.dialect = "V132" => ~s.policy

\* The first try block of validateOffline has run.
GroupADone == Len(attempted) >= 1 /\ pc # "A"

\* C15: the first group succeeds only if the Target of QualifyingProperties
\* is "#" followed by the Id of the Signature, SignedProperties is present,
\* UnsignedDataObjectProperties is absent and, in v1.3.2 only, there is no
\* SignaturePolicyIdentifier; a Signature without an Id is reported as a
\* failure of the first group and is not an unchecked access.
C15_GroupA ==
    GroupADone =>
      /\ CauseOf("A") = OK => GroupAConditions(sig)
      /\ (sig.dialect = "V111" /\ sig.policy) =>
           CauseOf("A") # "Signature policy is not valid"
      /\ sig.id = "none" => (pc # "crashed" /\ CauseOf("A") # OK)

\* The third try block of validateOffline has run.
GroupCDone == Len(attempted) = 3 /\ pc \in {"end", "done"}

\* C16: the third group fails whenever the store is null and whenever the
\* signing certificate does not verify against the store; validateOffline
\* never succeeds without a trust store, whatever the first two groups did.
C16_TrustStore ==
    /\ GroupCDone =>
         /\ store = "none" => CauseOf("C") # OK
         /\ (store # "none" /\ getSigningX509CertificateType(sig) = OK
               /\ ~verify(sig.cert, store)) => CauseOf("C") # OK
    /\ (pc # "idle" /\ store = "none") => result # "ok"
    /\ (pc = "done" /\ store = "none") => result = "throw"

\* validateOffline(NULL) threw on a signature that passes the first two
\* groups, with the third group's cause alone.
C16_Witness ==
    /\ pc = "done"
    /\ nEdits = 0
    /\ store = "none"
    /\ result = "throw"
    /\ causes = <<[group |-> "C",
                   msg |-> "Unable to verify signing certificate"]>>

UnsupportedMethod == "Unsupported SignedInfo signature method"

\* C17: for every SignatureMethod algorithm outside RSA-SHA1, RSA-SHA224
\* and RSA-SHA256 checkSignatureMethod throws and validateOffline does not
\* succeed, throwing with that cause where it returns; for every algorithm
\* of the three checkSignatureMethod does not throw.
C17_SignatureMethod ==
    /\ sig.method \notin {"rsa-sha1", "rsa-sha224", "rsa-sha256"} =>
         /\ checkSignatureMethod(sig) = UnsupportedMethod
         /\ result # "ok"
         /\ pc = "done" =>
              (result = "throw" /\ CauseOf("B") = UnsupportedMethod)
    /\ sig.method \in {"rsa-sha1", "rsa-sha224", "rsa-sha256"} =>
         /\ checkSignatureMethod(sig) = OK
         /\ CauseOf("B") # UnsupportedMethod

\* validateOffline threw on a signature whose only fault is the signature
\* method RSA-SHA512.
C17_Witness ==
    /\ pc = "done"
    /\ nEdits = 1
    /\ lastEdit = "SetSignatureMethod"
    /\ sig.method = "rsa-sha512"
    /\ store = "trusting"
    /\ result = "throw"
    /\ causes = <<[group |-> "B", msg |-> UnsupportedMethod]>>

UnsupportedC14n == "Unsupported SignedInfo canonicalization method"

\* The canonicalizer setting the digest dv was computed under.
SettingOf(dv) == dv.of.setting

\* The rows of the dispatch table for the methods of C14N 1.0.
C14n10Rows ==
    /\ sig.c14n = "c14n" =>
         /\ digested.err = OK
         /\ SettingOf(digested.dv) = [excl |-> FALSE, incl11 |-> FALSE,
                                      comments |-> FALSE, prefixes |-> {}]
    /\ sig.c14n = "c14n-com" =>
         /\ digested.err = OK
         /\ SettingOf(digested.dv) = [excl |-> FALSE, incl11 |-> FALSE,
                                      comments |-> TRUE, prefixes |-> {}]
    /\ sig.c14n = "exc-c14n" =>
         /\ digested.err = OK
         /\ SettingOf(digested.dv) = [excl |-> TRUE, incl11 |-> FALSE,
                                      comments |-> FALSE, prefixes |-> {"ds"}]

\* The rows for the methods of C14N 1.1.
C14n11Rows ==
    /\ sig.c14n = "c14n11" =>
         /\ digested.err = OK
         /\ SettingOf(digested.dv) = [excl |-> FALSE, incl11 |-> TRUE,
                                      comments |-> FALSE, prefixes |-> {}]
    /\ sig.c14n = "c14n11-com" =>
         /\ digested.err = OK
         /\ SettingOf(digested.dv) = [excl |-> FALSE, incl11 |-> TRUE,
                                      comments |-> TRUE, prefixes |-> {}]

Refused == digested.err = UnsupportedC14n /\ digested.dv = NoDigest

\* C18 as stated: the five methods are dispatched as the table says and
\* every other method fails before a digest is produced.
C18_Original ==
    digested # NotDigested =>
      /\ C14n10Rows
      /\ C14n11Rows
      /\ sig.c14n \notin {"c14n", "c14n-com", "exc-c14n", "c14n11",
                          "c14n11-com"} => Refused

\* C18: C14N 1.0, C14N 1.0 with comments and Exclusive C14N 1.0 are
\* dispatched as the table says; C14N 1.1 and C14N 1.1 with comments are
\* dispatched as the table says in a build whose XML Security library
\* defines URI_ID_C14N11_NOC and fail as unsupported in a build whose
\* library does not; every other method fails before a digest is produced.
C18_Dispatch ==
    digested # NotDigested =>
      /\ C14n10Rows
      /\ c14n11 => C14n11Rows
      /\ (~c14n11 /\ sig.c14n \in {"c14n11", "c14n11-com"}) => Refused
      /\ sig.c14n \notin {"c14n", "c14n-com", "exc-c14n", "c14n11",
                          "c14n11-com"} => Refused

\* A build without C14N 1.1 refused a signature that uses it.
C18_Witness ==
    /\ digested # NotDigested
    /\ ~c14n11
    /\ sig.c14n = "c14n11"
    /\ Refused

\* What validateOffline(st) finds in each of its three groups.
OfflineVerdict(s, b, st) ==
    <<checkQualifyingProperties(s), GroupB(s, b).err,
      checkSigningCertificate(s, st)>>

\* A step of a call on the validator (not a change made to the document
\* before validation, nor the parse of another document) leaves the
\* signature and what validateOffline finds on it as they were; and a
\* getTMSignature call made right after one that returned a string returns
\* that string again.
C19_Step ==
    /\ (nEdits' = nEdits /\ lastEdit' = lastEdit /\ reparsed' = reparsed) =>
         /\ sig' = sig
         /\ bdoc' = bdoc
         /\ \A st \in Stores :
              OfflineVerdict(sig', bdoc', st) = OfflineVerdict(sig, bdoc, st)
    /\ ( /\ LastIs(OpGetTM) /\ Last.kind = "string"
         /\ Len(hist') = Len(hist) + 1
         /\ hist'[Len(hist')].op = OpGetTM ) =>
         /\ hist'[Len(hist')].kind = "string"
         /\ tmOut' = tmOut

OCSPCerts == { v.ocspCerts[i] : i \in 1..Len(v.ocspCerts) }

\* What the step validateTMOffline is at finds: prepare (before the call
\* has begun), the extraction of the response, verifyResponse, the nonce
\* comparison, the OCSPRef comparison.
StepOutcome ==
    CASE vpc = "idle"    -> prepare(sig, conf, v).err
      [] vpc = "extract" -> getOCSPResponseValue(sig).err
      [] vpc = "verify"  -> verifyResponse(conf, OCSPCerts, v.ocspResponse)
      [] vpc = "nonce"   -> checkNonce(sig, conf, v.ocspResponse)
      [] vpc = "ocspRef" -> checkOCSPRef(sig, v.ocspResponse)
      [] OTHER           -> "none"

TMSteps == <<"idle", "extract", "verify", "nonce", "ocspRef">>

\* The call of validateTMOffline ends with this step.
TMEnds ==
    /\ Len(hist') = Len(hist) + 1
    /\ hist'[Len(hist')].op = OpTM

\* A step of validateTMOffline is taken.
TMMoves ==
    \/ TMEnds
    \/ vpc' # vpc /\ vpc' \in {"extract", "verify", "nonce", "ocspRef"}
                  /\ (vpc = "idle" => nCalls' = nCalls + 1)

\* One step of validateTMOffline: it goes on to the next step of the order
\* exactly when the step succeeded, returns normally only from the last
\* step, and otherwise ends by throwing the error of the step that failed.
C20_Step ==
    TMMoves =>
      /\ \E i \in 1..5 : vpc = TMSteps[i]
      /\ \A i \in 1..5 :
           vpc = TMSteps[i] =>
             IF StepOutcome = OK
             THEN IF i < 5
                  THEN vpc' = TMSteps[i + 1] /\ hist' = hist
                  ELSE /\ TMEnds /\ vpc' = "idle"
                       /\ hist'[Len(hist')].kind = "ok"
             ELSE /\ TMEnds /\ vpc' = "idle"
                  /\ hist'[Len(hist')].kind = "throw"
                  /\ hist'[Len(hist')].val = StepOutcome

\* C20: validateTMOffline runs prepare, the extraction of the response,
\* verifyResponse, the nonce comparison and the OCSPRef comparison in that
\* order, each only if the one before succeeded; it returns normally only
\* if all succeeded and otherwise reports the error of the first step that
\* failed, and that alone.
C20_FailFast == [][C20_Step]_vars

(***************************************************************************)
(* The order of the checks in the second try block of validateOffline.     *)
(***************************************************************************)
GroupBOrder ==
    <<"checkSignatureMethod", "checkReferences", "checkKeyInfo",
      "checkSignatureValue">>

\* What a check of the second try block answers on the document as it
\* stands.
CheckOutcome(name) ==
    CASE name = "checkSignatureMethod" -> checkSignatureMethod(sig)
      [] name = "checkReferences" -> checkReferences(sig, bdoc).err
      [] name = "checkKeyInfo" -> checkKeyInfo(sig)
      [] name = "checkSignatureValue" -> checkSignatureValue(sig)

GroupBRan == \E i \in 1..Len(attempted) : attempted[i] = "B"

GroupBCauses == { i \in 1..Len(causes) : causes[i].group = "B" }

\* The references checkReferences takes for references to SignedProperties.
SigPropsFound ==
    { i \in 1..Len(sig.refs) : isReferenceToSigProps(sig.refs[i]) }

\* The signature method, the reference count or the SignedProperties
\* reference check fails.
FailsBeforeDocuments ==
    \/ checkSignatureMethod(sig) # OK
    \/ Len(sig.refs) # documentCount(bdoc) + 1
    \/ SigPropsFound = {}
    \/ Cardinality(SigPropsFound) > 1
    \/ \E i \in SigPropsFound : checkReferenceToSigProps(sig, sig.refs[i]) # OK

CheckDocumentCalls == { i \in 1..Len(calls) : calls[i].op = "checkDocument" }

\* C21: in the second try block of validateOffline the checks run in the
\* order checkSignatureMethod, checkReferences, checkKeyInfo,
\* checkSignatureValue and stop at the first failure: a check runs only if
\* all the checks before it succeeded, the block adds at most one cause,
\* the failure of the last check that ran, and checkDocument is not called
\* when the signature method, the reference count or the SignedProperties
\* reference check failed.
C21_GroupBOrder ==
    /\ ~GroupBRan => ran = <<>>
    /\ GroupBRan =>
         /\ ran # <<>>
         /\ ran = SubSeq(GroupBOrder, 1, Len(ran))
         /\ \A i \in 1..(Len(ran) - 1) : CheckOutcome(ran[i]) = OK
         /\ Len(ran) < Len(GroupBOrder) => CheckOutcome(ran[Len(ran)]) # OK
         /\ Cardinality(GroupBCauses) <= 1
         /\ CauseOf("B") = CheckOutcome(ran[Len(ran)])
         /\ FailsBeforeDocuments => CheckDocumentCalls = {}
         /\ Len(ran) >= 3 => ~FailsBeforeDocuments

\* checkKeyInfo fails after checkReferences succeeded and called
\* checkDocument; checkSignatureValue, which would fail too, does not run
\* and the block adds the one cause of checkKeyInfo.
C21_Witness ==
    /\ pc = "done"
    /\ nEdits = 1
    /\ lastEdit = "SetX509Certificate"
    /\ ran = <<"checkSignatureMethod", "checkReferences", "checkKeyInfo">>
    /\ CheckDocumentCalls # {}
    /\ checkSignatureValue(sig) # OK
    /\ CauseOf("B") = checkKeyInfo(sig)
    /\ Cardinality(GroupBCauses) = 1
    /\ result = "throw"
=============================================================================
